---- MODULE Spec2Model ----
(***************************************************************************)
(* parkr: safety-verified pruning of local project copies.                 *)
(*                                                                         *)
(* The model covers GenerateReport and determineSafetyStatus,              *)
(* SelectPruneCandidates, ExecutePrune, deleteSingleProject and            *)
(* verifyBeforeDeletion, GetNewestMtime and GetDirSize, ComputeProjectHash,*)
(* and the Project record and StateManager.Save of the state store.        *)
(*                                                                         *)
(* Time is counted in ticks; SubSec ticks make one second, so that         *)
(* time.Time.Unix() = tick \div SubSec while time.Time.After compares      *)
(* ticks.  A tree hash is modelled by the exact input fed to SHA-256       *)
(* (the sorted (path, content) pairs), i.e. as a collision-free hash.      *)
(***************************************************************************)
EXTENDS Integers, Sequences, FiniteSets, TLC

\* ------------------------------------------------------------------ bounds
NProj == 2          \* projects in the state document
MaxTarget == 3      \* largest target byte count drawn for a prune run
MaxEnv == 1         \* out-of-band filesystem events per run
MaxCaller == 2      \* longest selection a library caller hands to ExecutePrune

\* ------------------------------------------------------- program constants
SubSec == 4                 \* ticks per second (time.Time.Unix truncates to seconds)
WriteTick == SubSec         \* tick at which the project files were last written
ParkTick == WriteTick + 1   \* tick of the last park
StartClock == ParkTick + 1  \* tick at which the prune command is started

Names == 1..NProj
Ghost == NProj + 1  \* a name carried by a report without an entry in state.Projects
Nil == 0 - 1        \* nil *time.Time
ZeroTime == 0 - 1   \* time.Time{} : before every tick
NoHash == <<>>      \* nil *string hash

\* ---------------------------------------------------------------- helpers
RECURSIVE SumSeq(_)
SumSeq(s) == IF s = <<>> THEN 0 ELSE Head(s) + SumSeq(Tail(s))

Range(s) == {s[i] : i \in DOMAIN s}

\* time.Time.Unix(): whole seconds
Unix(t) == t \div SubSec

\* time.Time.After
After(a, b) == a > b

\* ------------------------------------------------------------- filesystem
\* A directory tree: exists (os.Stat succeeds), readable (Walk can list it),
\* files in walk (lexical) order.  A file: kind "reg" | "link", mtime, data.
RegFile(t, d) == [kind |-> "reg", mtime |-> t, data |-> d]
LinkFile(t) == [kind |-> "link", mtime |-> t, data |-> 0]
AbsentDir == [exists |-> FALSE, readable |-> FALSE, files |-> <<>>]
Dir(fs) == [exists |-> TRUE, readable |-> TRUE, files |-> fs]

\* info.Size() of a non-directory entry
FileSize(f) == IF f.kind = "reg" THEN 1 + f.data ELSE 1

\* os.Stat(path): err == nil
StatOk(d) == d.exists

\* GetNewestMtime: the loop body of the Walk callback, entry by entry.
\* acc = [found, mtime, newestTime]; newestTime is compared in whole seconds.
RECURSIVE NewestScan(_, _, _)
NewestScan(files, i, acc) ==
  IF i > Len(files) THEN acc
  ELSE IF Unix(files[i].mtime) > acc.newestTime
       THEN NewestScan(files, i + 1,
              [found |-> TRUE, mtime |-> files[i].mtime,
               newestTime |-> Unix(files[i].mtime)])
       ELSE NewestScan(files, i + 1, acc)

\* GetNewestMtime(dirPath) (*os.FileInfo, error):
\*   err    - Walk failed (missing or unreadable directory)
\*   found  - the returned interface value is non-nil
\* The returned pointer itself is never nil when err is nil.
GetNewestMtime(d) ==
  IF ~d.exists \/ ~d.readable
  THEN [err |-> TRUE, found |-> FALSE, mtime |-> ZeroTime]
  ELSE LET r == NewestScan(d.files, 1, [found |-> FALSE, mtime |-> ZeroTime, newestTime |-> 0])
       IN [err |-> FALSE, found |-> r.found, mtime |-> r.mtime]

\* GetDirSize(dirPath) (int64, error)
GetDirSize(d) ==
  IF ~d.exists \/ ~d.readable
  THEN [err |-> TRUE, size |-> 0]
  ELSE [err |-> FALSE, size |-> SumSeq([i \in DOMAIN d.files |-> FileSize(d.files[i])])]

\* The (relative path, content) pairs of the regular files, in path order.
RECURSIVE HashEntries(_, _)
HashEntries(files, i) ==
  IF i > Len(files) THEN <<>>
  ELSE IF files[i].kind = "reg"
       THEN <<<<i, files[i].data>>>> \o HashEntries(files, i + 1)
       ELSE HashEntries(files, i + 1)

\* ComputeProjectHash(projectPath) (string, error)
ComputeProjectHash(d) ==
  IF ~d.exists \/ ~d.readable
  THEN [err |-> TRUE, hash |-> NoHash]
  ELSE LET es == HashEntries(d.files, 1)
       IN IF Len(es) = 0 THEN [err |-> TRUE, hash |-> NoHash]
          ELSE [err |-> FALSE, hash |-> es]

\* ------------------------------------------------------------ state store
\* core.Project (the fields the prune engine reads or writes)
Project(path, grabbed, grabbedAt, parkAt, parkMtime, noHashMode, lh, ah, hAt) ==
  [LocalPath |-> path, IsGrabbed |-> grabbed, GrabbedAt |-> grabbedAt,
   LastParkAt |-> parkAt, LastParkMtime |-> parkMtime, NoHashMode |-> noHashMode,
   LocalContentHash |-> lh, ArchiveContentHash |-> ah, LocalHashComputedAt |-> hAt]

\* ------------------------------------------------------- safety verifier
\* The verdict of a verification: safe, status text, and whether the call
\* panicked (a method call on a nil os.FileInfo interface value).
Verdict(safe, status) == [safe |-> safe, status |-> status, panic |-> FALSE]
Panicked == [safe |-> FALSE, status |-> "panic", panic |-> TRUE]

\* "if project.LastParkAt == nil": the project was never parked.
NeverParked_ChecksGrabbedAt(project) == project.GrabbedAt = Nil

NeverParked(project) == project.LastParkAt = Nil

\* "if noHash || project.NoHashMode": the mtime method is used.
UseMtimeMethod_OptionOnly(project, noHash) == noHash

UseMtimeMethod(project, noHash) == noHash \/ project.NoHashMode

\* verifyBeforeDeletion(project, noHash) evaluated against the tree d found
\* at project.LocalPath.
verifyBeforeDeletion(project, noHash, d) ==
  IF NeverParked(project) THEN Verdict(FALSE, "Never checked in")
  ELSE IF ~StatOk(d) THEN Verdict(FALSE, "Local path not found")
  ELSE LET newest == GetNewestMtime(d) IN
    \* "err != nil || newest == nil": newest is &newest, never nil
    IF newest.err THEN Verdict(FALSE, "Error getting modification time")
    ELSE IF ~newest.found THEN Panicked      \* (*newest).ModTime() on nil interface
    ELSE LET lastModified == newest.mtime IN
      IF UseMtimeMethod(project, noHash)
      THEN IF project.LastParkMtime # Nil
           THEN IF After(lastModified, project.LastParkMtime)
                THEN Verdict(FALSE, "Has uncommitted work")
                ELSE Verdict(TRUE, "Safe to delete")
           ELSE IF project.LastParkAt # Nil /\ After(lastModified, project.LastParkAt)
                THEN Verdict(FALSE, "Has uncommitted work")
                ELSE Verdict(TRUE, "Safe to delete")
      ELSE LET h == ComputeProjectHash(d) IN
           IF h.err THEN Verdict(FALSE, "Error computing hash")
           ELSE IF project.LocalContentHash = NoHash \/ h.hash # project.LocalContentHash
                THEN Verdict(FALSE, "Has uncommitted work")
                ELSE Verdict(TRUE, "Safe to delete")

\* determineSafetyStatus(project, lastModified, recomputeHashes), with the
\* tree d at project.LocalPath for the optional re-hash.
determineSafetyStatus(project, lastModified, recomputeHashes, d) ==
  IF project.LastParkAt = Nil THEN Verdict(FALSE, "Never checked in")
  ELSE IF recomputeHashes /\ ~project.NoHashMode
  THEN LET h == ComputeProjectHash(d) IN
       IF h.err THEN Verdict(FALSE, "Error computing hash")
       ELSE IF project.LocalContentHash = NoHash THEN Verdict(FALSE, "Missing hash data")
       ELSE IF h.hash # project.LocalContentHash THEN Verdict(FALSE, "Has uncommitted work")
       ELSE Verdict(TRUE, "Safe to delete")
  ELSE IF project.LastParkMtime # Nil
       THEN IF After(lastModified, project.LastParkMtime)
            THEN Verdict(FALSE, "Has uncommitted work")
            ELSE Verdict(TRUE, "Safe to delete")
       ELSE IF After(lastModified, project.LastParkAt)
            THEN Verdict(FALSE, "Has uncommitted work")
            ELSE Verdict(TRUE, "Safe to delete")

\* ----------------------------------------------------------------- report
\* The body of GenerateReport's loop for one grabbed project: the
\* ProjectReport, or a panic when the tree has no entry GetNewestMtime counts.
ReportPanics(d) ==
  StatOk(d) /\ ~GetNewestMtime(d).err /\ ~GetNewestMtime(d).found

ProjectReport(name, project, recomputeHashes, d) ==
  LET size == IF StatOk(d) /\ ~GetDirSize(d).err THEN GetDirSize(d).size ELSE 0
      lastModified == IF StatOk(d) /\ ~GetNewestMtime(d).err
                      THEN GetNewestMtime(d).mtime ELSE ZeroTime
      v == determineSafetyStatus(project, lastModified, recomputeHashes, d)
  IN [Name |-> name, LocalPath |-> project.LocalPath, LocalSize |-> size,
      LastModified |-> lastModified, NeverParked |-> (project.LastParkAt = Nil),
      IsSafeDelete |-> v.safe, Status |-> v.status, NoHashMode |-> project.NoHashMode]

\* The orders sort.Slice may leave a set of reports in: every arrangement
\* ascending by LastModified (the sort is not stable and the map iteration
\* order feeding it is unspecified).
SortedByModified(reports) ==
  {s \in [1..Cardinality(reports) -> reports] :
      /\ \A i, j \in DOMAIN s : i # j => s[i] # s[j]
      /\ \A i, j \in DOMAIN s : i < j => ~(s[j].LastModified < s[i].LastModified)}

\* GenerateReport(state, recomputeHashes): the reports of the grabbed projects
GrabbedReports(state, fs, recomputeHashes) ==
  {ProjectReport(n, state[n], recomputeHashes, fs[state[n].LocalPath]) :
      n \in {m \in DOMAIN state : state[m].IsGrabbed}}

GenerateReportPanics(state, fs) ==
  \E n \in DOMAIN state : state[n].IsGrabbed /\ ReportPanics(fs[state[n].LocalPath])

\* ------------------------------------------------ verification before rm
\* verifyByMtime(project, projectName): nil error = safe
verifyByMtime(project, d) ==
  IF project.LastParkMtime = Nil THEN Verdict(FALSE, "never parked")
  ELSE LET newest == GetNewestMtime(d) IN
    IF newest.err THEN Verdict(FALSE, "failed to check local files")
    ELSE IF newest.found /\ After(newest.mtime, project.LastParkMtime)
         THEN Verdict(FALSE, "modified since last park")
         ELSE Verdict(TRUE, "Mtime verification passed")

\* verifyByHash(project, projectName): nil error = safe
verifyByHash(project, d) ==
  IF project.NoHashMode THEN Verdict(FALSE, "no-hash mode")
  ELSE IF project.ArchiveContentHash = NoHash \/ project.LocalHashComputedAt = Nil
  THEN Verdict(FALSE, "no stored hashes")
  ELSE LET newest == GetNewestMtime(d) IN
    IF newest.err THEN Verdict(FALSE, "failed to check local files")
    ELSE IF newest.found /\ After(newest.mtime, project.LocalHashComputedAt)
    THEN Verdict(FALSE, "modified since hash was computed")
    ELSE LET h == ComputeProjectHash(d) IN
      IF h.err THEN Verdict(FALSE, "failed to compute local hash")
      ELSE IF h.hash # project.ArchiveContentHash
           THEN Verdict(FALSE, "hash does not match archive")
           ELSE Verdict(TRUE, "Hash verification passed")

\* The "Safety verification" block of RmCmd with force off.
RmVerify(project, noHash, d) ==
  IF project.NoHashMode /\ ~noHash THEN Verdict(FALSE, "parked with --no-hash")
  ELSE IF noHash \/ project.NoHashMode THEN verifyByMtime(project, d)
  ELSE verifyByHash(project, d)

\* The classification GenerateReport gives one grabbed project.
Classify(project, recomputeHashes, d) ==
  IF ReportPanics(d) THEN Panicked
  ELSE LET r == ProjectReport(1, project, recomputeHashes, d)
       IN Verdict(r.IsSafeDelete, r.Status)

\* --------------------------------------------------------------- selector
\* The greedy loop of SelectPruneCandidates over candidates cands from
\* index i on: the number of candidates selected.
RECURSIVE SelectLoop_StopsAbove(_, _, _, _)
SelectLoop_StopsAbove(cands, i, totalSelected, targetBytes) ==
  IF i > Len(cands) \/ totalSelected > targetBytes THEN i - 1
  ELSE SelectLoop_StopsAbove(cands, i + 1, totalSelected + cands[i].LocalSize, targetBytes)

RECURSIVE SelectLoop(_, _, _, _)
SelectLoop(cands, i, totalSelected, targetBytes) ==
  IF i > Len(cands) \/ totalSelected >= targetBytes THEN i - 1
  ELSE SelectLoop(cands, i + 1, totalSelected + cands[i].LocalSize, targetBytes)

\* The pool SelectPruneCandidates draws from: summary.Candidates (the safe
\* reports), or with force summary.Projects (every grabbed project).
CandidatePool_ForceKeepsSafeOnly(reports, force) == {r \in reports : r.IsSafeDelete}

CandidatePool(reports, force) ==
  IF force THEN reports ELSE {r \in reports : r.IsSafeDelete}

\* The PruneResult built by SelectPruneCandidates from the sorted pool.
SelectionResult_InsufficientAtTarget(pool, targetBytes, force) ==
  LET k == SelectLoop(pool, 1, 0, targetBytes)
      total == SumSeq([i \in 1..k |-> pool[i].LocalSize])
  IN [Candidates |-> [i \in DOMAIN pool |-> [Report |-> pool[i], Selected |-> i <= k]],
      SelectedProjects |-> SubSeq(pool, 1, k),
      TotalSelected |-> total,
      TargetBytes |-> targetBytes,
      InsufficientSpace |-> (pool # <<>> /\ total <= targetBytes),
      NoCandidates |-> (pool = <<>>),
      Deleted |-> <<>>, FailedDeletions |-> <<>>, TotalFreed |-> 0,
      Warnings |-> IF force THEN <<"WARNING: --force skips verification. Data may be lost!">> ELSE <<>>]

SelectionResult(pool, targetBytes, force) ==
  LET k == SelectLoop(pool, 1, 0, targetBytes)
      total == SumSeq([i \in 1..k |-> pool[i].LocalSize])
  IN [Candidates |-> [i \in DOMAIN pool |-> [Report |-> pool[i], Selected |-> i <= k]],
      SelectedProjects |-> SubSeq(pool, 1, k),
      TotalSelected |-> total,
      TargetBytes |-> targetBytes,
      InsufficientSpace |-> (pool # <<>> /\ total < targetBytes),
      NoCandidates |-> (pool = <<>>),
      Deleted |-> <<>>, FailedDeletions |-> <<>>, TotalFreed |-> 0,
      Warnings |-> IF force THEN <<"WARNING: --force skips verification. Data may be lost!">> ELSE <<>>]

\* StateManager.Save(state): the document on disk after the call.
Save_Deferred(persisted, state, ok) == persisted

Save(persisted, state, ok) == IF ok THEN state ELSE persisted

\* deleteSingleProject, after os.RemoveAll returned: the in-memory state.
\* The project is marked not grabbed only when the removal succeeded.
UpdateAfterRemove_IgnoreErr(state, name, rmOk) ==
  [state EXCEPT ![name].IsGrabbed = FALSE, ![name].GrabbedAt = Nil]

UpdateAfterRemove(state, name, rmOk) ==
  IF rmOk THEN [state EXCEPT ![name].IsGrabbed = FALSE, ![name].GrabbedAt = Nil]
  ELSE state

\* safeProgressFn: does a panic of the caller's callback leave the wrapper?
\* (defer/recover swallows it)
safeProgressFn_NoRecover(panics) == panics

safeProgressFn(panics) == FALSE

\* ------------------------------------------------------------- variables
VARIABLES
  projects,       \* state.Projects, in memory
  saved,          \* the persisted state document
  loaded,         \* the state document as loaded at start (history)
  disk,           \* path -> directory tree
  clock,          \* tick of the latest event
  opts,           \* PruneOptions: [Force, NoHash]
  result,         \* PruneResult
  pc,             \* position of the prune run
  idx,            \* ExecutePrune: index into result.SelectedProjects
  curSize,        \* deleteSingleProject: currentSize
  removed,        \* names whose directory os.RemoveAll removed, in order (history)
  cause,          \* why each entry of FailedDeletions failed (history)
  progress,       \* calls of safeProgressFn: [Name, success, freed] (history)
  cbPanicked,     \* did the callback panic in its latest call (history)
  touched,        \* names whose files were written after selection (history)
  envCount,       \* filesystem faults injected so far
  saveCalls,      \* number of Save calls of the batch (history)
  vin,            \* the input of a stand-alone verification
  vout,           \* its verdicts
  selector,       \* runInteractiveMode: the InteractiveSelector
  response,       \* runInteractiveMode: the answer read at the y/N prompt
  tty             \* standard input: is it a terminal, and its configuration

vars == <<projects, saved, loaded, disk, clock, opts, result, pc, idx, curSize,
          removed, cause, progress, cbPanicked, touched, envCount, saveCalls, vin, vout, selector, response, tty>>

\* ------------------------------------------------------------------ init
H0 == <<<<1, 0>>, <<2, 0>>>>      \* tree hash of CleanDir
CleanDir == Dir(<<RegFile(WriteTick, 0), RegFile(WriteTick, 0)>>)
DirtyDir == Dir(<<RegFile(StartClock, 1), RegFile(WriteTick, 0)>>)
EmptyDir == Dir(<<>>)

\* The project records and trees a state document is loaded with.
Profiles(n) ==
  { \* grabbed, never parked (GrabCmd)
    <<Project(n, TRUE, WriteTick, Nil, Nil, TRUE, NoHash, NoHash, Nil), CleanDir>>,
    \* parked without hashes, unchanged since
    <<Project(n, TRUE, WriteTick, ParkTick, WriteTick, TRUE, NoHash, NoHash, Nil), CleanDir>>,
    \* parked with hashes, unchanged since
    <<Project(n, TRUE, WriteTick, ParkTick, WriteTick, FALSE, H0, H0, ParkTick), CleanDir>>,
    \* parked without hashes, a file written after the park
    <<Project(n, TRUE, WriteTick, ParkTick, WriteTick, TRUE, NoHash, NoHash, Nil), DirtyDir>>,
    \* parked, last_park_mtime missing
    <<Project(n, TRUE, WriteTick, ParkTick, Nil, TRUE, NoHash, NoHash, Nil), CleanDir>>,
    \* parked, local tree emptied
    <<Project(n, TRUE, WriteTick, ParkTick, WriteTick, TRUE, NoHash, NoHash, Nil), EmptyDir>>,
    \* not grabbed
    <<Project(n, FALSE, Nil, ParkTick, WriteTick, TRUE, NoHash, NoHash, Nil), AbsentDir>> }

\* No stand-alone verification is in progress.
NoInput == [given |-> FALSE]
NoOutput == [done |-> FALSE]

\* No interactive session has been started.
NoSelector == [active |-> FALSE]

\* The y/N prompt has not been shown.
NoResponse == "unasked"

\* Standard input is not a terminal.
NoTerminal == [isatty |-> FALSE, config |-> "entry"]

EmptyResult ==
  [Candidates |-> <<>>, SelectedProjects |-> <<>>, TotalSelected |-> 0,
   TargetBytes |-> 0, InsufficientSpace |-> FALSE, NoCandidates |-> FALSE,
   Deleted |-> <<>>, FailedDeletions |-> <<>>, TotalFreed |-> 0, Warnings |-> <<>>]

Init ==
  /\ \E f \in [Names -> UNION {Profiles(n) : n \in Names}] :
        /\ \A n \in Names : f[n] \in Profiles(n)
        /\ projects = [n \in Names |-> f[n][1]]
        /\ disk = [n \in Names |-> f[n][2]]
  /\ saved = projects
  /\ loaded = projects
  /\ clock = StartClock
  /\ opts = [Force |-> FALSE, NoHash |-> FALSE]
  /\ result = EmptyResult
  /\ pc = "start"
  /\ idx = 0
  /\ curSize = 0
  /\ removed = <<>>
  /\ cause = <<>>
  /\ progress = <<>>
  /\ cbPanicked = FALSE
  /\ touched = {}
  /\ envCount = 0
  /\ saveCalls = 0
  /\ vin = NoInput
  /\ vout = NoOutput
  /\ selector = NoSelector
  /\ response = NoResponse
  /\ tty = NoTerminal

Targets == {1, MaxTarget}

\* --------------------------------------------------------------- actions
\* PruneCmd up to the end of SelectPruneCandidates.
SelectPruneCandidates(targetBytes, force, noHash) ==
  /\ pc = "start"
  /\ opts' = [Force |-> force, NoHash |-> noHash]
  /\ IF GenerateReportPanics(projects, disk)
     THEN /\ pc' = "crashed"
          /\ UNCHANGED result
     ELSE LET reports == GrabbedReports(projects, disk, FALSE)
              pool == CandidatePool(reports, force)
          IN \E sorted \in SortedByModified(pool) :
               /\ result' = SelectionResult(sorted, targetBytes, force)
               /\ pc' = IF sorted = <<>> THEN "done" ELSE "selected"
  /\ UNCHANGED <<projects, saved, loaded, disk, clock, idx, curSize, removed, cause,
                 progress, cbPanicked, touched, envCount, saveCalls, vin, vout, selector, response, tty>>

\* A library caller builds the PruneResult itself (as the package tests do):
\* any sequence of distinct reports of grabbed projects, or of a name that
\* state.Projects does not hold.
GhostReport ==
  [Name |-> Ghost, LocalPath |-> Ghost, LocalSize |-> 1, LastModified |-> ZeroTime,
   NeverParked |-> FALSE, IsSafeDelete |-> FALSE, Status |-> "", NoHashMode |-> FALSE]

CallerSelection(targetBytes, noHash) ==
  /\ pc = "start"
  /\ ~GenerateReportPanics(projects, disk)
  /\ opts' = [Force |-> FALSE, NoHash |-> noHash]
  /\ LET reports == GrabbedReports(projects, disk, FALSE) \cup {GhostReport}
     IN \E k \in 1..MaxCaller :
        \E sel \in [1..k -> reports] :
          /\ \A i, j \in 1..k : i # j => sel[i] # sel[j]
          /\ result' = [EmptyResult EXCEPT
                          !.SelectedProjects = sel,
                          !.TotalSelected = SumSeq([i \in 1..k |-> sel[i].LocalSize]),
                          !.TargetBytes = targetBytes]
  /\ pc' = "selected"
  /\ UNCHANGED <<projects, saved, loaded, disk, clock, idx, curSize, removed, cause,
                 progress, cbPanicked, touched, envCount, saveCalls, vin, vout, selector, response, tty>>

\* ExecutePrune, entry: the result lists are reset.
ExecutePruneStart ==
  /\ pc = "selected"
  /\ result' = [result EXCEPT !.Deleted = <<>>, !.FailedDeletions = <<>>, !.TotalFreed = 0]
  /\ idx' = 1
  /\ pc' = "loop"
  /\ UNCHANGED <<projects, saved, loaded, disk, clock, opts, curSize, removed, cause,
                 progress, cbPanicked, touched, envCount, saveCalls, vin, vout, selector, response, tty>>

Candidate == result.SelectedProjects[idx]

\* The three statements every failure branch of the loop runs:
\* append to FailedDeletions, safeProgressFn(project, false, 0), continue.
FailCandidate_NoCallback(why, panics) ==
  /\ result' = [result EXCEPT !.FailedDeletions = Append(@, Candidate)]
  /\ cause' = Append(cause, why)
  /\ progress' = progress
  /\ idx' = idx + 1
  /\ pc' = "loop"

FailCandidate(why, panics) ==
  /\ result' = [result EXCEPT !.FailedDeletions = Append(@, Candidate)]
  /\ cause' = Append(cause, why)
  /\ progress' = Append(progress, [Name |-> Candidate.Name, success |-> FALSE, freed |-> 0])
  /\ idx' = idx + 1
  /\ pc' = IF safeProgressFn(panics) THEN "crashed" ELSE "loop"

\* A re-verification that, like RmCmd, marks a project whose local path is
\* gone as not grabbed.
ExamineOutcome_UpdatesMissing(panics) ==
  /\ pc = "loop"
  /\ idx <= Len(result.SelectedProjects)
  /\ IF Candidate.Name \notin DOMAIN projects
     THEN FailCandidate("notFound", panics) /\ projects' = projects
     ELSE LET stateProject == projects[Candidate.Name]
              v == verifyBeforeDeletion(stateProject, opts.NoHash, disk[stateProject.LocalPath])
          IN /\ projects' = IF disk[stateProject.LocalPath].exists THEN projects
                            ELSE [projects EXCEPT ![Candidate.Name].IsGrabbed = FALSE]
             /\ IF opts.Force \/ (v.safe /\ ~v.panic)
                THEN /\ pc' = "remove"
                     /\ UNCHANGED <<result, cause, progress, idx>>
                ELSE IF v.panic
                THEN /\ pc' = "crashed"
                     /\ UNCHANGED <<result, cause, progress, idx>>
                ELSE FailCandidate("unsafe", panics)
  /\ UNCHANGED <<saved, disk, curSize, removed>>

\* ExecutePrune, loop head: look the candidate up and re-verify it.
ExamineOutcome(panics) ==
  /\ pc = "loop"
  /\ idx <= Len(result.SelectedProjects)
  /\ IF Candidate.Name \notin DOMAIN projects
     THEN FailCandidate("notFound", panics)
     ELSE LET stateProject == projects[Candidate.Name]
              v == verifyBeforeDeletion(stateProject, opts.NoHash, disk[stateProject.LocalPath])
          IN IF opts.Force \/ (v.safe /\ ~v.panic)
             THEN /\ pc' = "remove"
                  /\ UNCHANGED <<result, cause, progress, idx>>
             ELSE IF v.panic
             THEN /\ pc' = "crashed"
                  /\ UNCHANGED <<result, cause, progress, idx>>
             ELSE FailCandidate("unsafe", panics)
  /\ UNCHANGED <<projects, saved, disk, curSize, removed>>

ExecExamine ==
  /\ \E panics \in BOOLEAN :
       /\ ExamineOutcome(panics)
       /\ cbPanicked' = (panics /\ Len(progress') > Len(progress))
  /\ UNCHANGED <<loaded, clock, opts, touched, envCount, saveCalls, vin, vout, selector, response, tty>>

\* What os.RemoveAll may leave behind when it returns an error: the
\* directory with the entries from some position on.
RemoveLeftovers(d) ==
  IF ~d.exists THEN {}
  ELSE {[d EXCEPT !.files = SubSeq(d.files, k, Len(d.files))] : k \in 1..(Len(d.files) + 1)}

\* deleteSingleProject up to and including the in-memory update:
\* GetDirSize, os.RemoveAll(project.LocalPath), IsGrabbed = false.
RemoveOutcome(panics) ==
  /\ pc = "remove"
  /\ LET path == Candidate.LocalPath
         sz == GetDirSize(disk[path])
     IN /\ curSize' = IF sz.err THEN Candidate.LocalSize ELSE sz.size
        /\ \/ /\ disk' = [disk EXCEPT ![path] = AbsentDir]
              /\ projects' = UpdateAfterRemove(projects, Candidate.Name, TRUE)
              /\ removed' = Append(removed, Candidate.Name)
              /\ pc' = "save"
              /\ UNCHANGED <<result, cause, progress, idx>>
           \/ /\ \E left \in RemoveLeftovers(disk[path]) : disk' = [disk EXCEPT ![path] = left]
              /\ projects' = UpdateAfterRemove(projects, Candidate.Name, FALSE)
              /\ removed' = removed
              /\ FailCandidate("removeFailed", panics)
  /\ UNCHANGED saved

ExecRemove ==
  /\ \E panics \in BOOLEAN :
       /\ RemoveOutcome(panics)
       /\ cbPanicked' = (panics /\ Len(progress') > Len(progress))
  /\ UNCHANGED <<loaded, clock, opts, touched, envCount, saveCalls, vin, vout, selector, response, tty>>

\* deleteSingleProject from sm.Save on, and the rest of the loop body:
\* Deleted, TotalFreed, safeProgressFn(project, true, freed), target check.
SaveOutcome(panics) ==
  /\ pc = "save"
  /\ \E ok \in BOOLEAN :
       /\ saved' = Save(saved, projects, ok)
       /\ IF ok
          THEN /\ result' = [result EXCEPT !.Deleted = Append(@, Candidate),
                                           !.TotalFreed = @ + curSize]
               /\ progress' = Append(progress,
                                [Name |-> Candidate.Name, success |-> TRUE, freed |-> curSize])
               /\ idx' = idx + 1
               /\ pc' = IF safeProgressFn(panics) THEN "crashed"
                        ELSE IF result.TotalFreed + curSize >= result.TargetBytes THEN "done"
                        ELSE "loop"
               /\ UNCHANGED cause
          ELSE FailCandidate("saveFailed", panics)
  /\ UNCHANGED <<projects, disk, curSize, removed>>

ExecSave ==
  /\ \E panics \in BOOLEAN :
       /\ SaveOutcome(panics)
       /\ cbPanicked' = (panics /\ Len(progress') > Len(progress))
  /\ saveCalls' = saveCalls + 1
  /\ UNCHANGED <<loaded, clock, opts, touched, envCount, vin, vout, selector, response, tty>>

\* ExecutePrune, loop exhausted: return nil.
ExecutePruneReturn ==
  /\ pc = "loop"
  /\ idx > Len(result.SelectedProjects)
  /\ pc' = "done"
  /\ UNCHANGED <<projects, saved, loaded, disk, clock, opts, result, idx, curSize, removed,
                 cause, progress, cbPanicked, touched, envCount, saveCalls, vin, vout, selector, response, tty>>

\* ------------------------------------------------------------ environment
\* Other processes act on the local trees of the selected projects while the
\* run is between selection and the examination of the next candidate.
EnvWindow(n) ==
  /\ pc \in {"selected", "loop"}
  /\ envCount < MaxEnv
  /\ \E i \in DOMAIN result.SelectedProjects : result.SelectedProjects[i].Name = n

\* A file of project n gets new content; its mtime becomes the current time.
EnvWrite(n, i) ==
  /\ EnvWindow(n)
  /\ disk[n].exists /\ i \in DOMAIN disk[n].files /\ disk[n].files[i].kind = "reg"
  /\ clock' = clock + 1
  /\ envCount' = envCount + 1
  /\ disk' = [disk EXCEPT ![n].files[i] = RegFile(clock + 1, 1 - @.data)]
  /\ touched' = touched \cup {n}
  /\ UNCHANGED <<projects, saved, loaded, opts, result, pc, idx, curSize, removed, cause,
                 progress, cbPanicked, saveCalls, vin, vout, selector, response, tty>>

\* The local tree of project n is emptied, deleted, made unreadable, or its
\* files are replaced by a symbolic link.
EnvFault(n, kind) ==
  /\ EnvWindow(n)
  /\ disk[n].exists
  /\ envCount' = envCount + 1
  /\ disk' = [disk EXCEPT ![n] =
                CASE kind = "empty" -> [@ EXCEPT !.files = <<>>]
                  [] kind = "delete" -> AbsentDir
                  [] kind = "unreadable" -> [@ EXCEPT !.readable = FALSE]
                  [] kind = "link" -> [@ EXCEPT !.files = <<LinkFile(WriteTick)>>]]
  /\ UNCHANGED <<projects, saved, loaded, clock, opts, result, pc, idx, curSize, removed,
                 cause, progress, cbPanicked, touched, saveCalls, vin, vout, selector, response, tty>>

FaultKinds == {"empty", "delete", "unreadable", "link"}

\* ----------------------------------------------------------- specification
Next ==
  \/ \E t \in Targets, force \in BOOLEAN, noHash \in BOOLEAN :
        SelectPruneCandidates(t, force, noHash)
  \/ \E t \in Targets, noHash \in BOOLEAN : CallerSelection(t, noHash)
  \/ ExecutePruneStart
  \/ ExecExamine
  \/ ExecRemove
  \/ ExecSave
  \/ ExecutePruneReturn
  \/ \E n \in Names, i \in 1..2 : EnvWrite(n, i)
  \/ \E n \in Names, kind \in FaultKinds : EnvFault(n, kind)

Spec == Init /\ [][Next]_vars

\* ------------------------------------------- selections made earlier
\* A library caller hands ExecutePrune reports that were made from an
\* earlier state document: the LocalPath a report carries is the one the
\* project had then, which may differ from the LocalPath of its record now.
StaleReports(reports) ==
  {[r EXCEPT !.LocalPath = q] : r \in reports, q \in Names}

StaleSelection(targetBytes, noHash) ==
  /\ pc = "start"
  /\ ~GenerateReportPanics(projects, disk)
  /\ opts' = [Force |-> FALSE, NoHash |-> noHash]
  /\ LET reports == StaleReports(GrabbedReports(projects, disk, FALSE))
     IN \E k \in 1..MaxCaller :
        \E sel \in [1..k -> reports] :
          /\ \A i, j \in 1..k : i # j => sel[i].Name # sel[j].Name
          /\ \E i \in 1..k : sel[i].LocalPath # projects[sel[i].Name].LocalPath
          /\ result' = [EmptyResult EXCEPT
                          !.SelectedProjects = sel,
                          !.TotalSelected = SumSeq([i \in 1..k |-> sel[i].LocalSize]),
                          !.TargetBytes = targetBytes]
  /\ pc' = "selected"
  /\ UNCHANGED <<projects, saved, loaded, disk, clock, idx, curSize, removed, cause,
                 progress, cbPanicked, touched, envCount, saveCalls, vin, vout, selector, response, tty>>

NextStale ==
  \/ Next
  \/ \E t \in Targets, noHash \in BOOLEAN : StaleSelection(t, noHash)

SpecStale == Init /\ [][NextStale]_vars

\* ------------------------------------------- verification taken by itself
\* The verifiers applied to one project record as StateManager.Load decodes
\* it from the state document (any combination of present and null fields)
\* and one tree at its local path.
H1 == <<<<1, 1>>, <<2, 0>>>>      \* tree hash of DirtyDir and RewrittenDir
RewrittenDir == Dir(<<RegFile(WriteTick, 1), RegFile(WriteTick, 0)>>)
LinkOnlyDir == Dir(<<LinkFile(WriteTick)>>)
\* a file rewritten after the park with the content it had
TouchedDir == Dir(<<RegFile(StartClock + SubSec, 0), RegFile(WriteTick, 0)>>)
UnreadableDir == [exists |-> TRUE, readable |-> FALSE, files |-> <<>>]
\* a file rewritten after the park within the second of the file visited first
SameSecondDir == Dir(<<RegFile(WriteTick, 0), RegFile(StartClock, 0)>>)

HashValues == {NoHash, H0, H1}
HashTimes == {Nil, ParkTick}

LoadedRecords ==
  {Project(1, TRUE, WriteTick, parkAt, parkMtime, noHashMode, lh, ah, hAt) :
     parkAt \in {Nil, ParkTick}, parkMtime \in {Nil, WriteTick},
     noHashMode \in BOOLEAN, lh \in HashValues, ah \in HashValues,
     hAt \in HashTimes}

VerifyTrees ==
  {CleanDir, DirtyDir, RewrittenDir, TouchedDir, SameSecondDir, EmptyDir, LinkOnlyDir,
   UnreadableDir, AbsentDir}

InitV ==
  /\ vin \in [given : {TRUE}, project : LoadedRecords, d : VerifyTrees,
              noHash : BOOLEAN, recomputeHashes : BOOLEAN]
  /\ vout = NoOutput
  /\ selector = NoSelector
  /\ response = NoResponse
  /\ tty = NoTerminal
  /\ projects = [n \in Names |->
        Project(n, FALSE, Nil, ParkTick, WriteTick, TRUE, NoHash, NoHash, Nil)]
  /\ disk = [n \in Names |-> AbsentDir]
  /\ saved = projects
  /\ loaded = projects
  /\ clock = StartClock
  /\ opts = [Force |-> FALSE, NoHash |-> FALSE]
  /\ result = EmptyResult
  /\ pc = "verify"
  /\ idx = 0
  /\ curSize = 0
  /\ removed = <<>>
  /\ cause = <<>>
  /\ progress = <<>>
  /\ cbPanicked = FALSE
  /\ touched = {}
  /\ envCount = 0
  /\ saveCalls = 0

\* The verdict function fn gives project record q under the given input.
Apply(fn, q, in) ==
  CASE fn = "verifyBeforeDeletion" -> verifyBeforeDeletion(q, in.noHash, in.d)
    [] fn = "determineSafetyStatus" -> Classify(q, in.recomputeHashes, in.d)
    [] fn = "RmCmd" -> RmVerify(q, in.noHash, in.d)

\* Whether fn decides the input by the hash method.
HashMethod(fn, q, in) ==
  CASE fn = "verifyBeforeDeletion" -> ~UseMtimeMethod(q, in.noHash)
    [] fn = "determineSafetyStatus" -> in.recomputeHashes /\ ~q.NoHashMode
    [] fn = "RmCmd" -> ~(in.noHash \/ q.NoHashMode)

\* What the call of fn on the input leaves as its outcome.
Outcome(fn) ==
  [done |-> TRUE, fn |-> fn,
   hashMethod |-> HashMethod(fn, vin.project, vin),
   verdict |-> Apply(fn, vin.project, vin)]

ApplyVerifyBeforeDeletion ==
  /\ pc = "verify" /\ vin.given /\ ~vout.done
  /\ vout' = Outcome("verifyBeforeDeletion")
  /\ UNCHANGED <<projects, saved, loaded, disk, clock, opts, result, pc, idx,
                 curSize, removed, cause, progress, cbPanicked, touched,
                 envCount, saveCalls, vin, selector, response, tty>>

ApplyDetermineSafetyStatus ==
  /\ pc = "verify" /\ vin.given /\ ~vout.done
  /\ vout' = Outcome("determineSafetyStatus")
  /\ UNCHANGED <<projects, saved, loaded, disk, clock, opts, result, pc, idx,
                 curSize, removed, cause, progress, cbPanicked, touched,
                 envCount, saveCalls, vin, selector, response, tty>>

ApplyRmVerify ==
  /\ pc = "verify" /\ vin.given /\ ~vout.done
  /\ vout' = Outcome("RmCmd")
  /\ UNCHANGED <<projects, saved, loaded, disk, clock, opts, result, pc, idx,
                 curSize, removed, cause, progress, cbPanicked, touched,
                 envCount, saveCalls, vin, selector, response, tty>>

NextV ==
  \/ ApplyVerifyBeforeDeletion
  \/ ApplyDetermineSafetyStatus
  \/ ApplyRmVerify

SpecVerify == InitV /\ [][NextV]_vars

\* ------------------------------------------------------ interactive selector
\* NewInteractiveSelector(candidates, targetBytes).  cursor and the members
\* of selected are the 0-based indexes of the code.
NewInteractiveSelector_NoPreselect(candidates, targetBytes) ==
  [active |-> TRUE,
   candidates |-> candidates,
   cursor |-> 0,
   selected |-> {},
   targetBytes |-> targetBytes,
   totalSelected |-> SumSeq([i \in 1..Len(candidates) |->
                       IF candidates[i].Selected THEN candidates[i].Report.LocalSize ELSE 0]),
   quitting |-> FALSE,
   confirmed |-> FALSE]

NewInteractiveSelector(candidates, targetBytes) ==
  LET pre == {i \in 0..(Len(candidates) - 1) : candidates[i + 1].Selected}
  IN [active |-> TRUE,
      candidates |-> candidates,
      cursor |-> 0,
      selected |-> pre,
      targetBytes |-> targetBytes,
      totalSelected |-> SumSeq([i \in 1..Len(candidates) |->
                          IF candidates[i].Selected THEN candidates[i].Report.LocalSize ELSE 0]),
      quitting |-> FALSE,
      confirmed |-> FALSE]

\* The bytes handleInput is called with: q, ESC, k / up, j / down, space,
\* a, carriage return, line feed, and some key with no case ("x").
Keys == {"q", "ESC", "k", "A", "j", "B", " ", "a", "CR", "LF", "x"}

\* handleInput(key): the selector after the key press.  The code's return
\* value is false exactly when quitting or confirmed has been set.
handleInput_QuitConfirms(m, key) ==
  LET n == Len(m.candidates) IN
  CASE key \in {"q", "ESC"} -> [m EXCEPT !.quitting = TRUE, !.confirmed = TRUE]
    [] key \in {"k", "A"} -> IF m.cursor > 0 THEN [m EXCEPT !.cursor = @ - 1] ELSE m
    [] key \in {"j", "B"} -> IF m.cursor < n - 1 THEN [m EXCEPT !.cursor = @ + 1] ELSE m
    [] key = " " ->
         IF m.cursor < n
         THEN LET size == m.candidates[m.cursor + 1].Report.LocalSize IN
              IF m.cursor \in m.selected
              THEN [m EXCEPT !.selected = @ \ {m.cursor}, !.totalSelected = @ - size]
              ELSE [m EXCEPT !.selected = @ \cup {m.cursor}, !.totalSelected = @ + size]
         ELSE m
    [] key = "a" ->
         IF Cardinality(m.selected) = n
         THEN [m EXCEPT !.selected = {}, !.totalSelected = 0]
         ELSE [m EXCEPT !.selected = 0..(n - 1),
                        !.totalSelected = SumSeq([i \in 1..n |-> m.candidates[i].Report.LocalSize])]
    [] key \in {"CR", "LF"} -> [m EXCEPT !.confirmed = TRUE]
    [] OTHER -> m

handleInput_AllAlwaysSelects(m, key) ==
  LET n == Len(m.candidates) IN
  CASE key \in {"q", "ESC"} -> [m EXCEPT !.quitting = TRUE]
    [] key \in {"k", "A"} -> IF m.cursor > 0 THEN [m EXCEPT !.cursor = @ - 1] ELSE m
    [] key \in {"j", "B"} -> IF m.cursor < n - 1 THEN [m EXCEPT !.cursor = @ + 1] ELSE m
    [] key = " " ->
         IF m.cursor < n
         THEN LET size == m.candidates[m.cursor + 1].Report.LocalSize IN
              IF m.cursor \in m.selected
              THEN [m EXCEPT !.selected = @ \ {m.cursor}, !.totalSelected = @ - size]
              ELSE [m EXCEPT !.selected = @ \cup {m.cursor}, !.totalSelected = @ + size]
         ELSE m
    [] key = "a" ->
         [m EXCEPT !.selected = 0..(n - 1),
                   !.totalSelected = SumSeq([i \in 1..n |-> m.candidates[i].Report.LocalSize])]
    [] key \in {"CR", "LF"} -> [m EXCEPT !.confirmed = TRUE]
    [] OTHER -> m

handleInput_SpaceOnlySelects(m, key) ==
  LET n == Len(m.candidates) IN
  CASE key \in {"q", "ESC"} -> [m EXCEPT !.quitting = TRUE]
    [] key \in {"k", "A"} -> IF m.cursor > 0 THEN [m EXCEPT !.cursor = @ - 1] ELSE m
    [] key \in {"j", "B"} -> IF m.cursor < n - 1 THEN [m EXCEPT !.cursor = @ + 1] ELSE m
    [] key = " " ->
         IF m.cursor < n
         THEN LET size == m.candidates[m.cursor + 1].Report.LocalSize IN
              IF m.cursor \in m.selected
              THEN m
              ELSE [m EXCEPT !.selected = @ \cup {m.cursor}, !.totalSelected = @ + size]
         ELSE m
    [] key = "a" ->
         IF Cardinality(m.selected) = n
         THEN [m EXCEPT !.selected = {}, !.totalSelected = 0]
         ELSE [m EXCEPT !.selected = 0..(n - 1),
                        !.totalSelected = SumSeq([i \in 1..n |-> m.candidates[i].Report.LocalSize])]
    [] key \in {"CR", "LF"} -> [m EXCEPT !.confirmed = TRUE]
    [] OTHER -> m

handleInput_DownUnclamped(m, key) ==
  LET n == Len(m.candidates) IN
  CASE key \in {"q", "ESC"} -> [m EXCEPT !.quitting = TRUE]
    [] key \in {"k", "A"} -> IF m.cursor > 0 THEN [m EXCEPT !.cursor = @ - 1] ELSE m
    [] key \in {"j", "B"} -> IF m.cursor < n THEN [m EXCEPT !.cursor = @ + 1] ELSE m
    [] key = " " ->
         IF m.cursor < n
         THEN LET size == m.candidates[m.cursor + 1].Report.LocalSize IN
              IF m.cursor \in m.selected
              THEN [m EXCEPT !.selected = @ \ {m.cursor}, !.totalSelected = @ - size]
              ELSE [m EXCEPT !.selected = @ \cup {m.cursor}, !.totalSelected = @ + size]
         ELSE m
    [] key = "a" ->
         IF Cardinality(m.selected) = n
         THEN [m EXCEPT !.selected = {}, !.totalSelected = 0]
         ELSE [m EXCEPT !.selected = 0..(n - 1),
                        !.totalSelected = SumSeq([i \in 1..n |-> m.candidates[i].Report.LocalSize])]
    [] key \in {"CR", "LF"} -> [m EXCEPT !.confirmed = TRUE]
    [] OTHER -> m

handleInput(m, key) ==
  LET n == Len(m.candidates) IN
  CASE key \in {"q", "ESC"} -> [m EXCEPT !.quitting = TRUE]
    [] key \in {"k", "A"} -> IF m.cursor > 0 THEN [m EXCEPT !.cursor = @ - 1] ELSE m
    [] key \in {"j", "B"} -> IF m.cursor < n - 1 THEN [m EXCEPT !.cursor = @ + 1] ELSE m
    [] key = " " ->
         IF m.cursor < n
         THEN LET size == m.candidates[m.cursor + 1].Report.LocalSize IN
              IF m.cursor \in m.selected
              THEN [m EXCEPT !.selected = @ \ {m.cursor}, !.totalSelected = @ - size]
              ELSE [m EXCEPT !.selected = @ \cup {m.cursor}, !.totalSelected = @ + size]
         ELSE m
    [] key = "a" ->
         IF Cardinality(m.selected) = n
         THEN [m EXCEPT !.selected = {}, !.totalSelected = 0]
         ELSE [m EXCEPT !.selected = 0..(n - 1),
                        !.totalSelected = SumSeq([i \in 1..n |-> m.candidates[i].Report.LocalSize])]
    [] key \in {"CR", "LF"} -> [m EXCEPT !.confirmed = TRUE]
    [] OTHER -> m

\* GetSelected(): the selected candidates, in the order of m.candidates.
RECURSIVE GetSelectedFrom_Reversed(_, _)
GetSelectedFrom_Reversed(m, i) ==
  IF i > Len(m.candidates) THEN <<>>
  ELSE IF (i - 1) \in m.selected
       THEN GetSelectedFrom_Reversed(m, i + 1) \o <<m.candidates[i]>>
       ELSE GetSelectedFrom_Reversed(m, i + 1)

RECURSIVE GetSelectedFrom(_, _)
GetSelectedFrom(m, i) ==
  IF i > Len(m.candidates) THEN <<>>
  ELSE IF (i - 1) \in m.selected
       THEN <<m.candidates[i]>> \o GetSelectedFrom(m, i + 1)
       ELSE GetSelectedFrom(m, i + 1)

GetSelected_Preselected(m) == SelectSeq(m.candidates, LAMBDA c : c.Selected)

GetSelected(m) == GetSelectedFrom(m, 1)

WasQuit_Never(m) == FALSE

WasQuit(m) == m.quitting

\* ------------------------------------------- the selector taken by itself
\* handleInput applied key by key to a selector made by
\* NewInteractiveSelector from a candidate list as SelectPruneCandidates
\* returns it: any sizes, the first k candidates marked.  vin keeps the last
\* key and the selector it was applied to (history).
MaxCands == 3       \* longest candidate list of a selector taken by itself
MaxKeys == 4        \* keys pressed in a session of a selector taken by itself

CandidateSizes == {1, 2}

CandidateOf(i, size, marked) ==
  [Report |-> [Name |-> i, LocalPath |-> i, LocalSize |-> size, LastModified |-> WriteTick,
               NeverParked |-> FALSE, IsSafeDelete |-> TRUE, Status |-> "Safe to delete",
               NoHashMode |-> TRUE],
   Selected |-> marked]

CandidateLists ==
  UNION {{[i \in 1..n |-> CandidateOf(i, sizes[i], i <= k)] :
            sizes \in [1..n -> CandidateSizes], k \in 1..n} : n \in 1..MaxCands}

InitSel ==
  /\ \E cands \in CandidateLists, t \in Targets :
        selector = NewInteractiveSelector(cands, t)
  /\ vin = NoInput
  /\ vout = NoOutput
  /\ pc = "interactive"
  /\ idx = 0
  /\ response = NoResponse
  /\ tty = [isatty |-> TRUE, config |-> "raw"]
  /\ projects = [n \in Names |->
        Project(n, FALSE, Nil, ParkTick, WriteTick, TRUE, NoHash, NoHash, Nil)]
  /\ disk = [n \in Names |-> AbsentDir]
  /\ saved = projects
  /\ loaded = projects
  /\ clock = StartClock
  /\ opts = [Force |-> FALSE, NoHash |-> FALSE]
  /\ result = EmptyResult
  /\ curSize = 0
  /\ removed = <<>>
  /\ cause = <<>>
  /\ progress = <<>>
  /\ cbPanicked = FALSE
  /\ touched = {}
  /\ envCount = 0
  /\ saveCalls = 0

\* One pass of the loop of RunInteractiveSelection: read a key, handleInput.
\* The loop ends when handleInput returns false.
PressKey(key) ==
  /\ pc = "interactive"
  /\ idx < MaxKeys
  /\ vin' = [given |-> TRUE, key |-> key, before |-> selector]
  /\ selector' = handleInput(selector, key)
  /\ idx' = idx + 1
  /\ pc' = IF selector'.quitting \/ selector'.confirmed THEN "done" ELSE "interactive"
  /\ UNCHANGED <<projects, saved, loaded, disk, clock, opts, result, curSize, removed,
                 cause, progress, cbPanicked, touched, envCount, saveCalls, vout,
                 response, tty>>

NextSel == \E key \in Keys : PressKey(key)

SpecSel == InitSel /\ [][NextSel]_vars

\* ------------------------------------------------------------- terminal
\* The bytes of the termios struct of the code (four uint32 flags, Cc
\* [20]byte, two uint32 speeds), and the bytes the kernel copies for the
\* requests TIOCGETA = 0x40487413 and TIOCSETA = 0x80487414 (bits 16..28 of
\* the request number: 0x48).
TermiosSize == 44
IoctlSize == 72

\* isTerminal(fd): getTermios succeeds.
isTerminal(t) == t.isatty

\* makeRaw(fd) when both of its ioctl calls succeed.
makeRaw(t) == [t EXCEPT !.config = "raw"]

\* The deferred setTermios(fd, oldState): the configurations the terminal can
\* have afterwards.  The request reads IoctlSize bytes at oldState; the bytes
\* past the struct belong to whatever the allocator placed there, so they are
\* the ones getTermios received ("entry") or others ("garbled").
setTermios(t) ==
  {[t EXCEPT !.config = "entry"]}
    \cup (IF IoctlSize > TermiosSize THEN {[t EXCEPT !.config = "garbled"]} ELSE {})

\* ------------------------------------------------------------ command line
\* The prune command as the user runs it: PruneCmd with its five options.
InitCmd ==
  /\ \E f \in [Names -> UNION {Profiles(n) : n \in Names}] :
        /\ \A n \in Names : f[n] \in Profiles(n)
        /\ projects = [n \in Names |-> f[n][1]]
        /\ disk = [n \in Names |-> f[n][2]]
  /\ saved = projects
  /\ loaded = projects
  /\ clock = StartClock
  /\ opts = [Force |-> FALSE, NoHash |-> FALSE, Execute |-> FALSE, Interactive |-> FALSE]
  /\ result = EmptyResult
  /\ pc = "start"
  /\ idx = 0
  /\ curSize = 0
  /\ removed = <<>>
  /\ cause = <<>>
  /\ progress = <<>>
  /\ cbPanicked = FALSE
  /\ touched = {}
  /\ envCount = 0
  /\ saveCalls = 0
  /\ vin = NoInput
  /\ vout = NoOutput
  /\ selector = NoSelector
  /\ response = NoResponse
  /\ \E isatty \in BOOLEAN : tty = [isatty |-> isatty, config |-> "entry"]

\* PruneCmd from the start to the point where it waits for a key, prints the
\* dry-run listing, or calls executeAndReport.
PruneCmd(targetBytes, execute, interactive, force, noHash) ==
  /\ pc = "start"
  /\ opts' = [Force |-> force, NoHash |-> noHash, Execute |-> execute,
              Interactive |-> interactive]
  /\ IF GenerateReportPanics(projects, disk)
     THEN /\ pc' = "crashed"
          /\ UNCHANGED <<result, selector, tty>>
     ELSE LET reports == GrabbedReports(projects, disk, FALSE)
              pool == CandidatePool(reports, force)
          IN \E sorted \in SortedByModified(pool) :
               /\ result' = SelectionResult(sorted, targetBytes, force)
               /\ IF result'.NoCandidates
                  THEN pc' = "done" /\ selector' = selector /\ tty' = tty
                  ELSE IF interactive
                  THEN \* RunInteractiveSelection up to the first read
                       IF ~isTerminal(tty)
                       THEN pc' = "done" /\ selector' = selector /\ tty' = tty
                       ELSE \E rawOk \in BOOLEAN :
                              IF rawOk
                              THEN /\ pc' = "interactive"
                                   /\ tty' = makeRaw(tty)
                                   /\ selector' = NewInteractiveSelector(result'.Candidates,
                                                                         result'.TargetBytes)
                              ELSE pc' = "done" /\ selector' = selector /\ tty' = tty
                  ELSE IF ~execute
                  THEN pc' = "done" /\ selector' = selector /\ tty' = tty      \* outputDryRun
                  ELSE pc' = "selected" /\ selector' = selector /\ tty' = tty  \* executeAndReport
  /\ UNCHANGED <<projects, saved, loaded, disk, clock, idx, curSize, removed, cause,
                 progress, cbPanicked, touched, envCount, saveCalls, vin, vout, response>>

\* reader.ReadByte fails inside the loop: RunInteractiveSelection returns the
\* error through its deferred setTermios, and runInteractiveMode returns it.
InteractiveError ==
  /\ pc = "interactive"
  /\ pc' = "done"
  /\ tty' \in setTermios(tty)
  /\ UNCHANGED <<projects, saved, loaded, disk, clock, opts, result, idx, curSize,
                 removed, cause, progress, cbPanicked, touched, envCount, saveCalls,
                 vin, vout, selector, response>>

\* One key read by RunInteractiveSelection and, when the loop ends with it,
\* runInteractiveMode up to the confirmation prompt.
KeyPress(key) ==
  /\ pc = "interactive"
  /\ LET m == handleInput(selector, key) IN
       /\ selector' = m
       /\ IF ~(m.quitting \/ m.confirmed) THEN tty' = tty ELSE tty' \in setTermios(tty)
       /\ IF ~(m.quitting \/ m.confirmed) THEN pc' = "interactive" /\ result' = result
          ELSE IF WasQuit(m) THEN pc' = "done" /\ result' = result
          ELSE LET selectedCandidates == GetSelected(m) IN
               IF Len(selectedCandidates) = 0 THEN pc' = "done" /\ result' = result
               ELSE /\ pc' = "confirm"
                    /\ result' = [result EXCEPT
                         !.SelectedProjects =
                            [i \in DOMAIN selectedCandidates |-> selectedCandidates[i].Report],
                         !.TotalSelected =
                            SumSeq([i \in DOMAIN selectedCandidates |->
                                      selectedCandidates[i].Report.LocalSize])]
  /\ UNCHANGED <<projects, saved, loaded, disk, clock, opts, idx, curSize,
                 removed, cause, progress, cbPanicked, touched, envCount, saveCalls,
                 vin, vout, response>>

\* The answers to "Proceed with deletion? [y/N]"; "" stands for a read error
\* or an empty line.
Responses == {"y", "Y", "yes", "Yes", "n", ""}

Confirm(answer) ==
  /\ pc = "confirm"
  /\ response' = answer
  /\ pc' = IF answer \in {"y", "Y", "yes", "Yes"} THEN "selected" ELSE "done"
  /\ UNCHANGED <<projects, saved, loaded, disk, clock, opts, result, idx, curSize,
                 removed, cause, progress, cbPanicked, touched, envCount, saveCalls,
                 vin, vout, selector, tty>>

NextCmd ==
  \/ \E t \in Targets, execute \in BOOLEAN, interactive \in BOOLEAN,
        force \in BOOLEAN, noHash \in BOOLEAN :
        PruneCmd(t, execute, interactive, force, noHash)
  \/ InteractiveError
  \/ \E key \in Keys : KeyPress(key)
  \/ \E answer \in Responses : Confirm(answer)
  \/ ExecutePruneStart
  \/ ExecExamine
  \/ ExecRemove
  \/ ExecSave
  \/ ExecutePruneReturn

SpecCmd == InitCmd /\ [][NextCmd]_vars

\* ----------------------------------------------------------- tree hashing
\* ComputeProjectHash byte by byte.  A tree is the set of entries WalkDir
\* reports below the root: path (the bytes of the relative path, none of them
\* 0), kind ("reg", "link", or "other" for directories, devices, sockets and
\* pipes) and content.  Byte 1 stands for 'a', byte 2 for 'b'.
HashPaths == {<<1>>, <<1, 2>>, <<2>>}
Contents == {0, 1}

EntryChoices(p) ==
  {[path |-> p, kind |-> "reg", content |-> c] : c \in Contents}
    \cup {[path |-> p, kind |-> k, content |-> 0] : k \in {"link", "other"}}

HashTrees ==
  {t \in SUBSET (UNION {EntryChoices(p) : p \in HashPaths}) :
     \A e, f \in t : e.path = f.path => e = f}

\* The orders in which a traversal can report the entries of tree t.
Walks(t) ==
  {w \in [1..Cardinality(t) -> t] : \A i, j \in DOMAIN w : i # j => w[i] # w[j]}

\* hashFile(path): the digest of the content, a fixed number of bytes, any
\* of which may be 0 or equal a byte of a path.
hashFile(content) == <<content, 1 - content>>

\* The WalkDir callback, entry by entry: symbolic links and non-regular
\* entries are skipped, a regular file appends fileHashEntry{path, hash}.
RECURSIVE fileHashes(_, _)
fileHashes(walk, i) ==
  IF i > Len(walk) THEN <<>>
  ELSE IF walk[i].kind = "link" THEN fileHashes(walk, i + 1)
  ELSE IF walk[i].kind # "reg" THEN fileHashes(walk, i + 1)
  ELSE <<[path |-> walk[i].path, hash |-> hashFile(walk[i].content)]>>
         \o fileHashes(walk, i + 1)

\* Go's string comparison p < q: bytewise, a proper prefix is smaller.
PathLess(p, q) ==
  \E k \in 1..Len(q) :
     /\ \A j \in 1..(k - 1) : j <= Len(p) /\ p[j] = q[j]
     /\ (k > Len(p) \/ (k <= Len(p) /\ p[k] < q[k]))

\* sort.Slice(fileHashes, path less): paths are distinct, so the result is
\* the one sequence in ascending path order.
SortByPath_Unsorted(fh) == fh

SortByPath(fh) ==
  [i \in 1..Len(fh) |->
     CHOOSE e \in Range(fh) :
        Cardinality({f \in Range(fh) : PathLess(f.path, e.path)}) = i - 1]

\* The bytes written to projectHasher: path, a 0 byte, the file digest.
RECURSIVE HasherInput_DigestsOnly(_, _)
HasherInput_DigestsOnly(fh, i) ==
  IF i > Len(fh) THEN <<>>
  ELSE fh[i].hash \o HasherInput_DigestsOnly(fh, i + 1)

RECURSIVE HasherInput(_, _)
HasherInput(fh, i) ==
  IF i > Len(fh) THEN <<>>
  ELSE fh[i].path \o <<0>> \o fh[i].hash \o HasherInput(fh, i + 1)

\* ComputeProjectHash on a traversal: the error for fileCount == 0, or the
\* digest, which is modelled by the input of the hasher.
ProjectHash_NoEmptyCheck(walk) ==
  LET fh == fileHashes(walk, 1)
  IN [err |-> FALSE, why |-> "", hash |-> HasherInput(SortByPath(fh), 1)]

ProjectHash(walk) ==
  LET fh == fileHashes(walk, 1)
  IN IF Len(fh) = 0
     THEN [err |-> TRUE, why |-> "project directory is empty or contains no regular files",
           hash |-> NoHash]
     ELSE [err |-> FALSE, why |-> "", hash |-> HasherInput(SortByPath(fh), 1)]

InitH ==
  /\ vin \in [given : {TRUE}, tree : HashTrees]
  /\ vout = NoOutput
  /\ selector = NoSelector
  /\ response = NoResponse
  /\ tty = NoTerminal
  /\ projects = [n \in Names |->
        Project(n, FALSE, Nil, ParkTick, WriteTick, TRUE, NoHash, NoHash, Nil)]
  /\ disk = [n \in Names |-> AbsentDir]
  /\ saved = projects
  /\ loaded = projects
  /\ clock = StartClock
  /\ opts = [Force |-> FALSE, NoHash |-> FALSE]
  /\ result = EmptyResult
  /\ pc = "hash"
  /\ idx = 0
  /\ curSize = 0
  /\ removed = <<>>
  /\ cause = <<>>
  /\ progress = <<>>
  /\ cbPanicked = FALSE
  /\ touched = {}
  /\ envCount = 0
  /\ saveCalls = 0

\* One call of ComputeProjectHash; the traversal reports the entries in
\* some order.
HashTree ==
  /\ pc = "hash" /\ vin.given /\ ~vout.done
  /\ \E w \in Walks(vin.tree) :
        vout' = [done |-> TRUE, fn |-> "ComputeProjectHash", walk |-> w,
                 sum |-> ProjectHash(w)]
  /\ UNCHANGED <<projects, saved, loaded, disk, clock, opts, result, pc, idx,
                 curSize, removed, cause, progress, cbPanicked, touched,
                 envCount, saveCalls, vin, selector, response, tty>>

NextH == HashTree

SpecHash == InitH /\ [][NextH]_vars

\* ------------------------------------------------------- saving the state
\* StateManager.Save statement by statement.  In this specification disk maps
\* the two paths of the state directory to a file: NoFile, or the bytes of a
\* serialized document, complete or cut short.
statePath == "state.json"
tmpPath_InPlace == statePath

tmpPath == "state.json.tmp"

NoFile == [exists |-> FALSE]
FileOf(doc, complete) == [exists |-> TRUE, doc |-> doc, complete |-> complete]

\* os.Rename(from, to) when it succeeds.
Rename(fs, from, to) ==
  IF from = to THEN fs ELSE [fs EXCEPT ![to] = fs[from], ![from] = NoFile]

\* The documents a Save of the prune engine replaces: a loaded state, and in
\* memory the same state with one grabbed project marked removed.
InitSave ==
  /\ \E f \in [Names -> UNION {Profiles(n) : n \in Names}] :
        /\ \A n \in Names : f[n] \in Profiles(n)
        /\ loaded = [n \in Names |-> f[n][1]]
  /\ \E n \in Names :
        /\ loaded[n].IsGrabbed
        /\ projects = UpdateAfterRemove(loaded, n, TRUE)
  /\ saved = loaded
  /\ \E left \in {NoFile, FileOf(loaded, FALSE), FileOf(loaded, TRUE)} :
        disk = [q \in {statePath, tmpPath} |->
                  IF q = statePath THEN FileOf(loaded, TRUE) ELSE left]
  /\ pc = "save.mkdir"
  /\ vin = NoInput
  /\ vout = NoOutput
  /\ selector = NoSelector
  /\ response = NoResponse
  /\ tty = NoTerminal
  /\ clock = StartClock
  /\ opts = [Force |-> FALSE, NoHash |-> FALSE]
  /\ result = EmptyResult
  /\ idx = 0
  /\ curSize = 0
  /\ removed = <<>>
  /\ cause = <<>>
  /\ progress = <<>>
  /\ cbPanicked = FALSE
  /\ touched = {}
  /\ envCount = 0
  /\ saveCalls = 0

SaveFrame ==
  UNCHANGED <<projects, saved, loaded, clock, opts, result, idx, curSize, removed,
              cause, progress, cbPanicked, touched, envCount, saveCalls, vin, vout,
              selector, response, tty>>

\* os.MkdirAll(dir, 0755)
SaveMkdirAll ==
  /\ pc = "save.mkdir"
  /\ \E ok \in BOOLEAN : pc' = IF ok THEN "save.marshal" ELSE "save.failed"
  /\ disk' = disk
  /\ SaveFrame

\* json.MarshalIndent(state, "", "  ")
SaveMarshal ==
  /\ pc = "save.marshal"
  /\ \E ok \in BOOLEAN : pc' = IF ok THEN "save.open" ELSE "save.failed"
  /\ disk' = disk
  /\ SaveFrame

\* os.WriteFile(tmpPath, data, 0644), first half: the file is created or
\* truncated.
SaveOpenTmp ==
  /\ pc = "save.open"
  /\ \E ok \in BOOLEAN :
        IF ok THEN /\ disk' = [disk EXCEPT ![tmpPath] = FileOf(projects, FALSE)]
                   /\ pc' = "save.write"
        ELSE disk' = disk /\ pc' = "save.failed"
  /\ SaveFrame

\* os.WriteFile, second half: the bytes are written and the file closed; on
\* an error the file keeps what was written so far.
SaveWriteTmp ==
  /\ pc = "save.write"
  /\ \E ok \in BOOLEAN :
        IF ok THEN /\ disk' = [disk EXCEPT ![tmpPath] = FileOf(projects, TRUE)]
                   /\ pc' = "save.rename"
        ELSE disk' = disk /\ pc' = "save.failed"
  /\ SaveFrame

\* os.Rename(tmpPath, sm.statePath); on an error os.Remove(tmpPath), whose
\* own error is ignored.
SaveRename ==
  /\ pc = "save.rename"
  /\ \/ disk' = Rename(disk, tmpPath, statePath) /\ pc' = "save.returned"
     \/ /\ disk' \in {disk, [disk EXCEPT ![tmpPath] = NoFile]}
        /\ pc' = "save.failed"
  /\ SaveFrame

\* The process dies between two statements of Save, or inside WriteFile.
SaveCrash ==
  /\ pc \in {"save.mkdir", "save.marshal", "save.open", "save.write", "save.rename"}
  /\ pc' = "save.crashed"
  /\ disk' = disk
  /\ SaveFrame

NextSave ==
  \/ SaveMkdirAll
  \/ SaveMarshal
  \/ SaveOpenTmp
  \/ SaveWriteTmp
  \/ SaveRename
  \/ SaveCrash

SpecSave == InitSave /\ [][NextSave]_vars

\* ------------------------------------------------------------ parkr remove
\* RemoveCmd(projectName, localOnly, archive, yes).  In this specification
\* disk also holds the archive copies, under ArchivePath(n).
ArchivePath(n) == Ghost + n

UnreadableTree == [exists |-> TRUE, readable |-> FALSE, files |-> <<RegFile(WriteTick, 0)>>]

InitRemove ==
  /\ \E f \in [Names -> UNION {Profiles(n) : n \in Names}],
        a \in [Names -> {CleanDir, AbsentDir, UnreadableTree}] :
        /\ \A n \in Names : f[n] \in Profiles(n)
        /\ projects = [n \in Names |-> f[n][1]]
        /\ disk = [q \in Names \cup {ArchivePath(n) : n \in Names} |->
                     IF q \in Names THEN f[q][2] ELSE a[q - Ghost]]
  /\ saved = projects
  /\ loaded = projects
  /\ pc = "remove.start"
  /\ vin = NoInput
  /\ vout = NoOutput
  /\ selector = NoSelector
  /\ response = NoResponse
  /\ tty = NoTerminal
  /\ clock = StartClock
  /\ opts = [Force |-> FALSE, NoHash |-> FALSE]
  /\ result = EmptyResult
  /\ idx = 0
  /\ curSize = 0
  /\ removed = <<>>
  /\ cause = <<>>
  /\ progress = <<>>
  /\ cbPanicked = FALSE
  /\ touched = {}
  /\ envCount = 0
  /\ saveCalls = 0

\* What the user types at "Type the project name to confirm deletion".
Typed == {"name", "other", "eof"}

\* The end of RemoveCmd: the error it returns (or none) and the effects.
RemoveReturns(err, mem, doc, fs) ==
  /\ vout' = [done |-> TRUE, err |-> err]
  /\ projects' = mem
  /\ saved' = doc
  /\ disk' = fs
  /\ pc' = "remove.done"

\* state without the entry of name: delete(state.Projects, projectName)
WithoutEntry(state, name) == [n \in DOMAIN state \ {name} |-> state[n]]

\* state with the entry of name put back
WithEntry(state, name, project) ==
  [n \in DOMAIN state \cup {name} |-> IF n = name THEN project ELSE state[n]]

\* RemoveCmd with localOnly: the local copy goes, the archive stays.
RemoveLocalOnly_NoRollback(name, yes, typed, saveOk, rmOk, rollbackOk) ==
  IF name \notin DOMAIN projects \/ ~projects[name].IsGrabbed
  THEN RemoveReturns("not currently grabbed", projects, saved, disk)
  ELSE LET project == projects[name]
           d == disk[project.LocalPath]
           off == [projects EXCEPT ![name].IsGrabbed = FALSE]
       IN IF ~d.exists
          THEN RemoveReturns(IF saveOk THEN "" ELSE "failed to update state",
                             off, Save(saved, off, saveOk), disk)
          ELSE IF GetDirSize(d).err
          THEN RemoveReturns("failed to calculate local size", projects, saved, disk)
          ELSE IF ~yes /\ typed # "name"
          THEN RemoveReturns("confirmation failed", projects, saved, disk)
          ELSE IF ~saveOk
          THEN RemoveReturns("failed to update state", off, saved, disk)
          ELSE IF rmOk
          THEN RemoveReturns("", off, off, [disk EXCEPT ![project.LocalPath] = AbsentDir])
          ELSE \E left \in RemoveLeftovers(d) :
                 RemoveReturns("failed to remove local copy", off, off,
                               [disk EXCEPT ![project.LocalPath] = left])

RemoveLocalOnly(name, yes, typed, saveOk, rmOk, rollbackOk) ==
  IF name \notin DOMAIN projects \/ ~projects[name].IsGrabbed
  THEN RemoveReturns("not currently grabbed", projects, saved, disk)
  ELSE LET project == projects[name]
           d == disk[project.LocalPath]
           off == [projects EXCEPT ![name].IsGrabbed = FALSE]
       IN IF ~d.exists
          THEN RemoveReturns(IF saveOk THEN "" ELSE "failed to update state",
                             off, Save(saved, off, saveOk), disk)
          ELSE IF GetDirSize(d).err
          THEN RemoveReturns("failed to calculate local size", projects, saved, disk)
          ELSE IF ~yes /\ typed # "name"
          THEN RemoveReturns("confirmation failed", projects, saved, disk)
          ELSE IF ~saveOk
          THEN RemoveReturns("failed to update state", off, saved, disk)
          ELSE IF rmOk
          THEN RemoveReturns("", off, off, [disk EXCEPT ![project.LocalPath] = AbsentDir])
          ELSE \E left \in RemoveLeftovers(d) :
                 RemoveReturns("failed to remove local copy", projects,
                               Save(off, projects, rollbackOk),
                               [disk EXCEPT ![project.LocalPath] = left])

\* RemoveCmd without localOnly: the state entry and the archive copy go; the
\* archive flag only selects the text of the warning.
RemoveArchive(name, archive, yes, typed, pathOk, saveOk, rmOk, rollbackOk) ==
  IF name \notin DOMAIN projects
  THEN RemoveReturns("not found in archive or state", projects, saved, disk)
  ELSE IF ~pathOk
  THEN RemoveReturns("failed to get archive path", projects, saved, disk)
  ELSE LET project == projects[name]
           a == disk[ArchivePath(name)]
           gone == WithoutEntry(projects, name)
       IN IF ~a.exists
          THEN RemoveReturns("archive path does not exist", projects, saved, disk)
          ELSE IF GetDirSize(a).err
          THEN RemoveReturns("failed to calculate archive size", projects, saved, disk)
          ELSE IF ~yes /\ typed # "name"
          THEN RemoveReturns("confirmation failed", projects, saved, disk)
          ELSE IF ~saveOk
          THEN RemoveReturns("failed to update state", gone, saved, disk)
          ELSE IF rmOk
          THEN RemoveReturns("", gone, gone, [disk EXCEPT ![ArchivePath(name)] = AbsentDir])
          ELSE \E left \in RemoveLeftovers(a) :
                 LET back == WithEntry(gone, name, project) IN
                 RemoveReturns("failed to remove archive", back,
                               Save(gone, back, rollbackOk),
                               [disk EXCEPT ![ArchivePath(name)] = left])

RemoveCmd ==
  /\ pc = "remove.start"
  /\ \E name \in Names \cup {Ghost}, localOnly \in BOOLEAN, archive \in BOOLEAN,
        yes \in BOOLEAN, typed \in Typed, pathOk \in BOOLEAN, saveOk \in BOOLEAN,
        rmOk \in BOOLEAN, rollbackOk \in BOOLEAN :
        /\ vin' = [given |-> TRUE, name |-> name, localOnly |-> localOnly,
                   archive |-> archive, yes |-> yes,
                   ioOk |-> (pathOk /\ saveOk /\ rmOk), rollbackOk |-> rollbackOk]
        /\ IF localOnly
           THEN RemoveLocalOnly(name, yes, typed, saveOk, rmOk, rollbackOk)
           ELSE RemoveArchive(name, archive, yes, typed, pathOk, saveOk, rmOk, rollbackOk)
  /\ UNCHANGED <<loaded, clock, opts, result, idx, curSize, removed, cause, progress,
                 cbPanicked, touched, envCount, saveCalls, selector, response, tty>>

NextRemove == RemoveCmd

SpecRemove == InitRemove /\ [][NextRemove]_vars

\* ------------------------------------------------- add, park and grab
\* The commands that create and update project records.  Each command loads
\* the persisted document, works on it and saves it; disk holds the local
\* trees under n and the archive copies under ArchivePath(n).
MaxCmds == 3        \* commands run one after the other

\* LocalPath of a project that was added with the move option: ""
NoPath == 0

InitLife ==
  /\ \E l \in [Names -> {CleanDir, EmptyDir, AbsentDir}] :
        disk = [q \in Names \cup {ArchivePath(n) : n \in Names} |->
                  IF q \in Names THEN l[q] ELSE AbsentDir]
  /\ saved = <<>>
  /\ projects = <<>>
  /\ loaded = <<>>
  /\ pc = "shell"
  /\ vin = NoInput
  /\ vout = NoOutput
  /\ selector = NoSelector
  /\ response = NoResponse
  /\ tty = NoTerminal
  /\ clock = StartClock
  /\ opts = [Force |-> FALSE, NoHash |-> FALSE]
  /\ result = EmptyResult
  /\ idx = 0
  /\ curSize = 0
  /\ removed = <<>>
  /\ cause = <<>>
  /\ progress = <<>>
  /\ cbPanicked = FALSE
  /\ touched = {}
  /\ envCount = 0
  /\ saveCalls = 0

\* The end of a command: its error (or none), the document and the trees.
CmdReturns(cmd, name, err, doc, fs) ==
  /\ vin' = [given |-> TRUE, cmd |-> cmd, name |-> name]
  /\ vout' = [done |-> TRUE, err |-> err]
  /\ saved' = doc
  /\ projects' = doc
  /\ disk' = fs
  /\ idx' = idx + 1
  /\ clock' = clock + 1

\* core.Rsync(src, dst): the destination becomes a copy of the source.
Rsync(fs, src, dst) == [fs EXCEPT ![dst] = fs[src]]

\* "if newestInfo != nil && *newestInfo != nil { project.LastParkMtime = &mtime }"
ParkMtime(newest, old) == IF newest.found THEN newest.mtime ELSE old

\* AddCmd(localPath, category, move)
AddCmd(name, move, rsyncOk, rmOk, saveOk) ==
  LET local == disk[name]
      now == clock + 1
      copied == Rsync(disk, name, ArchivePath(name))
      newest == GetNewestMtime(local)
      project == Project(name, TRUE, now, now, ParkMtime(newest, Nil), TRUE, NoHash, NoHash, Nil)
      moved == [project EXCEPT !.IsGrabbed = FALSE, !.LocalPath = NoPath, !.GrabbedAt = Nil]
  IN IF ~StatOk(local)
     THEN CmdReturns("add", name, "local path does not exist", saved, disk)
     ELSE IF name \in DOMAIN saved
     THEN CmdReturns("add", name, "already tracked", saved, disk)
     ELSE IF StatOk(disk[ArchivePath(name)])
     THEN CmdReturns("add", name, "archive path already exists", saved, disk)
     ELSE IF ~rsyncOk \/ ~local.readable
     THEN CmdReturns("add", name, "failed to copy project to archive", saved, disk)
     ELSE IF newest.err
     THEN CmdReturns("add", name, "failed to get mtime", saved, disk)
     ELSE IF move /\ ~rmOk
     THEN CmdReturns("add", name, "failed to remove local copy",
                     Save(saved, WithEntry(saved, name, project), saveOk), copied)
     ELSE IF ~saveOk
     THEN CmdReturns("add", name, "failed to update state", saved,
                     IF move THEN [copied EXCEPT ![name] = AbsentDir] ELSE copied)
     ELSE IF move
     THEN CmdReturns("add", name, "", WithEntry(saved, name, moved),
                     [copied EXCEPT ![name] = AbsentDir])
     ELSE CmdReturns("add", name, "", WithEntry(saved, name, project), copied)

\* ParkCmd(projectName, noHash)
ParkCmd(name, noHash, rsyncOk, saveOk) ==
  IF name \notin DOMAIN saved \/ ~saved[name].IsGrabbed
  THEN CmdReturns("park", name, "not currently grabbed", saved, disk)
  ELSE LET project == saved[name]
           local == disk[project.LocalPath]
           now == clock + 1
           copied == Rsync(disk, project.LocalPath, ArchivePath(name))
           localHashBefore == ComputeProjectHash(local)
           archiveHash == ComputeProjectHash(copied[ArchivePath(name)])
           newest == GetNewestMtime(local)
           parked == [project EXCEPT !.LastParkAt = now, !.NoHashMode = noHash,
                                     !.LastParkMtime = ParkMtime(newest, @)]
           hashed == [parked EXCEPT !.LocalContentHash = localHashBefore.hash,
                                    !.ArchiveContentHash = archiveHash.hash,
                                    !.LocalHashComputedAt = now]
       IN IF ~StatOk(local)
          THEN CmdReturns("park", name, "local path does not exist", saved, disk)
          ELSE IF ~StatOk(disk[ArchivePath(name)])
          THEN CmdReturns("park", name, "archive path does not exist", saved, disk)
          ELSE IF ~noHash /\ localHashBefore.err
          THEN CmdReturns("park", name, "failed to compute local hash", saved, disk)
          ELSE IF ~rsyncOk \/ ~local.readable
          THEN CmdReturns("park", name, "failed to sync project", saved, disk)
          ELSE IF newest.err
          THEN CmdReturns("park", name, "failed to get mtime", saved, copied)
          ELSE IF ~noHash /\ (archiveHash.err \/ archiveHash.hash # localHashBefore.hash)
          THEN CmdReturns("park", name, "hash mismatch after sync", saved, copied)
          ELSE IF ~saveOk
          THEN CmdReturns("park", name, "failed to update state", saved, copied)
          ELSE CmdReturns("park", name, "",
                          WithEntry(saved, name, IF noHash THEN parked ELSE hashed), copied)

\* GrabCmd(projectName, force, customPath) with the default local path
GrabCmd(name, force, rsyncOk, saveOk) ==
  LET now == clock + 1
      copied == Rsync(disk, ArchivePath(name), name)
      project == Project(name, TRUE, now, Nil, Nil, TRUE, NoHash, NoHash, Nil)
  IN IF name \in DOMAIN saved /\ saved[name].IsGrabbed /\ ~force
     THEN CmdReturns("grab", name, "already grabbed", saved, disk)
     ELSE IF ~StatOk(disk[ArchivePath(name)])
     THEN CmdReturns("grab", name, "not found in archive", saved, disk)
     ELSE IF StatOk(disk[name]) /\ ~force
     THEN CmdReturns("grab", name, "local path already exists", saved, disk)
     ELSE IF ~rsyncOk
     THEN CmdReturns("grab", name, "failed to copy project", saved,
                     [disk EXCEPT ![name] = AbsentDir])
     ELSE IF ~saveOk
     THEN CmdReturns("grab", name, "failed to update state", saved, copied)
     ELSE CmdReturns("grab", name, "", WithEntry(saved, name, project), copied)

LifeFrame ==
  UNCHANGED <<loaded, opts, result, pc, curSize, removed, cause, progress, cbPanicked,
              touched, saveCalls, selector, response, tty>>

RunAdd ==
  /\ pc = "shell" /\ idx < MaxCmds
  /\ \E name \in Names, move \in BOOLEAN, rsyncOk \in BOOLEAN, rmOk \in BOOLEAN,
        saveOk \in BOOLEAN : AddCmd(name, move, rsyncOk, rmOk, saveOk)
  /\ UNCHANGED envCount
  /\ LifeFrame

RunPark ==
  /\ pc = "shell" /\ idx < MaxCmds
  /\ \E name \in Names, noHash \in BOOLEAN, rsyncOk \in BOOLEAN, saveOk \in BOOLEAN :
        ParkCmd(name, noHash, rsyncOk, saveOk)
  /\ UNCHANGED envCount
  /\ LifeFrame

RunGrab ==
  /\ pc = "shell" /\ idx < MaxCmds
  /\ \E name \in Names, force \in BOOLEAN, rsyncOk \in BOOLEAN, saveOk \in BOOLEAN :
        GrabCmd(name, force, rsyncOk, saveOk)
  /\ UNCHANGED envCount
  /\ LifeFrame

\* Between two commands the user works in a local tree: writes a file,
\* or removes its files.
UserEdit(n) ==
  /\ pc = "shell" /\ envCount < MaxEnv
  /\ disk[n].exists
  /\ \E d \in {DirtyDir, EmptyDir} : disk' = [disk EXCEPT ![n] = d]
  /\ envCount' = envCount + 1
  /\ UNCHANGED <<projects, saved, clock, idx, vin, vout>>
  /\ LifeFrame

NextLife ==
  \/ RunAdd
  \/ RunPark
  \/ RunGrab
  \/ \E n \in Names : UserEdit(n)

SpecLife == InitLife /\ [][NextLife]_vars

\* ------------------------------------------------------------ properties
SelectedNames == {result.SelectedProjects[i].Name : i \in DOMAIN result.SelectedProjects}
DeletedNames == {result.Deleted[i].Name : i \in DOMAIN result.Deleted}
FailedNames == {result.FailedDeletions[i].Name : i \in DOMAIN result.FailedDeletions}
RemovedNames == Range(removed)

\* The candidates ExecutePrune has finished with (it has moved past them).
Passed == {result.SelectedProjects[i].Name : i \in 1..(idx - 1)}

\* The projects the persisted document records as not grabbed because of
\* this batch.
PersistedAsDeleted == {n \in Names : loaded[n].IsGrabbed /\ ~saved[n].IsGrabbed}

\* Trees to evaluate the verifier on: those on disk, a missing and an empty one.
SomeTrees == {disk[n] : n \in Names} \cup {AbsentDir, EmptyDir}

\* C1: with force off a never-parked project is never deleted.  The verifier
\* answers "unsafe, never checked in" for it under the hash method and under
\* the mtime-only method whatever tree is on disk; ExecutePrune never removes
\* its directory nor lists it as deleted, and once the loop has passed it, it
\* is listed in FailedDeletions.
C1_NeverParkedNeverDeleted ==
  \A n \in Names : projects[n].LastParkAt = Nil =>
    /\ \A noHash \in BOOLEAN, d \in SomeTrees :
         verifyBeforeDeletion(projects[n], noHash, d) = Verdict(FALSE, "Never checked in")
    /\ ~opts.Force =>
         /\ n \notin RemovedNames
         /\ n \notin DeletedNames
         /\ n \in Passed => n \in FailedNames

\* C1 witness: force is off, a never-parked project was put in
\* SelectedProjects, the loop has passed it and recorded it as failed.
C1_Witness ==
  \E n \in Names :
    /\ projects[n].LastParkAt = Nil /\ ~opts.Force
    /\ n \in Passed /\ n \in FailedNames /\ disk[n].exists

\* C2: with force off, a project that was safe at selection time and whose
\* files were written after selection (before the loop reached it) is not
\* deleted, and is listed in FailedDeletions once the loop has passed it.
C2_ModifiedAfterSelectionNotDeleted ==
  ~opts.Force =>
    \A i \in DOMAIN result.SelectedProjects :
      LET r == result.SelectedProjects[i] IN
      (r.IsSafeDelete /\ r.Name \in touched) =>
        /\ r.Name \notin RemovedNames
        /\ r.Name \in Passed => r.Name \in FailedNames

\* C3: at every point of a batch the projects the persisted document records
\* as not grabbed because of the batch are the first k of the projects whose
\* directories the batch has removed so far, in batch order; the removals
\* themselves follow the order of SelectedProjects.
C3_PersistedIsPrefixOfRemoved ==
  /\ \E k \in 0..Len(removed) : PersistedAsDeleted = {removed[i] : i \in 1..k}
  /\ \A i, j \in DOMAIN removed : i < j =>
       \E a, b \in DOMAIN result.SelectedProjects :
         /\ a < b
         /\ result.SelectedProjects[a].Name = removed[i]
         /\ result.SelectedProjects[b].Name = removed[j]

\* C3 witness: two directories are gone, the persisted document knows of the
\* first only (the second save failed or has not happened yet).
C3_Witness ==
  /\ Len(removed) = 2
  /\ PersistedAsDeleted = {removed[1]}
  /\ ~disk[removed[2]].exists

\* C4: every successful directory removal is followed by one Save of the full
\* in-memory state before the next candidate is examined; as long as no Save
\* has failed, the persisted document lacks at most the removal in progress.
C4_SaveAfterEveryDeletion ==
  /\ pc \in {"loop", "done", "crashed"} => saveCalls = Len(removed)
  /\ pc = "save" => saveCalls = Len(removed) - 1
  /\ "saveFailed" \notin Range(cause) =>
       /\ RemovedNames \ PersistedAsDeleted \subseteq
            (IF pc = "save" THEN {Candidate.Name} ELSE {})
       /\ (pc \in {"loop", "done"} /\ removed # <<>>) => saved = projects

\* C4 witness: a directory was removed and saved, and the loop is about to
\* examine the next candidate.
C4_Witness ==
  /\ pc = "loop" /\ idx <= Len(result.SelectedProjects)
  /\ Len(removed) = 1 /\ saveCalls = 1
  /\ PersistedAsDeleted = {removed[1]}
  /\ saved = projects

\* What the execution result tells about the k-th failed candidate besides
\* which project it is: the arguments its progress call was given.  (The
\* FailedDeletions entry is the selection-time report, unchanged, and
\* ExecutePrune returns nil.)
ProgressOf(name) == CHOOSE e \in Range(progress) : e.Name = name

FailureReport(k) ==
  LET e == ProgressOf(result.FailedDeletions[k].Name)
  IN [success |-> e.success, freed |-> e.freed]

\* C5: when the directory of a candidate is removed and the following Save
\* fails, the earlier deletions stay in the persisted document, the
\* directory is absent, and the result reports the candidate as a failure
\* that differs from the report of a candidate that failed verification,
\* was not found, or whose directory could not be removed.
C5_DeletedNotSavedIsDistinct ==
  \A i \in DOMAIN result.FailedDeletions : cause[i] = "saveFailed" =>
    /\ ~disk[result.FailedDeletions[i].LocalPath].exists
    /\ DeletedNames \subseteq PersistedAsDeleted
    /\ \A j \in DOMAIN result.FailedDeletions :
         cause[j] # "saveFailed" => FailureReport(i) # FailureReport(j)

\* C6: a failed candidate is recorded in FailedDeletions with a progress call
\* (false, 0), and the batch goes on: when the run is over every selected
\* candidate has been attempted unless the target was reached.
C6_FailureNeverAbortsBatch ==
  /\ \A k \in DOMAIN result.FailedDeletions :
       FailureReport(k) = [success |-> FALSE, freed |-> 0]
  /\ (idx >= 1 /\ pc \in {"done", "crashed"}) =>
       \/ idx > Len(result.SelectedProjects)
       \/ result.TotalFreed >= result.TargetBytes

\* C7: ExecutePrune never crashes, and when it has returned every candidate
\* it went past is listed as deleted or as failed.
C7_PruneRunAlwaysCompletes ==
  /\ idx >= 1 => pc # "crashed"
  /\ pc = "done" => Passed \subseteq DeletedNames \cup FailedNames

\* C8: a step of the batch in which the progress callback panicked changes
\* the result, the in-memory and persisted state, the disk and the position
\* of the loop exactly as the same step does with a callback that returns
\* normally.
C8_PanickingCallbackSameOutcome ==
  [][(cbPanicked' /\ Len(progress') > Len(progress)) =>
       (ExamineOutcome(FALSE) \/ RemoveOutcome(FALSE) \/ SaveOutcome(FALSE))]_vars

\* C8 witness: the callback panicked on the first candidate and the loop went
\* on to the second.
C8_Witness ==
  /\ cbPanicked /\ pc = "loop" /\ idx = 2 /\ idx <= Len(result.SelectedProjects)
  /\ Len(progress) = 1

WithHashes(in, lh, ah, hAt) ==
  [in.project EXCEPT !.LocalContentHash = lh, !.ArchiveContentHash = ah,
                     !.LocalHashComputedAt = hAt]

\* C10: for a project with NoHashMode set, the verdict of the executor's
\* verifier and of the report classification is the same whatever the three
\* hash fields hold, for every noHash and recomputeHashes setting.
C10_NoHashModeIgnoresHashFields ==
  (vout.done /\ vin.project.NoHashMode
     /\ vout.fn \in {"verifyBeforeDeletion", "determineSafetyStatus"}) =>
    \A lh \in HashValues, ah \in HashValues, hAt \in HashTimes :
      Apply(vout.fn, WithHashes(vin, lh, ah, hAt), vin) = vout.verdict

\* C10 witness: a NoHashMode project carrying stale, equal hashes of an
\* earlier park over a tree whose content no longer matches them is judged
\* safe by its modification time, with noHash off.
C10_Witness ==
  /\ vout.done /\ vout.fn = "verifyBeforeDeletion" /\ vin.project.NoHashMode
  /\ ~vin.noHash
  /\ vin.project.LocalContentHash = H0 /\ vin.project.ArchiveContentHash = H0
  /\ ComputeProjectHash(vin.d).hash = H1
  /\ vout.verdict = Verdict(TRUE, "Safe to delete")

\* C11: a prune run without --no-hash and without --force never removes the
\* directory of a project whose NoHashMode is set.
C11_NoHashModeProjectNeedsNoHashFlag ==
  (~opts.NoHash /\ ~opts.Force) =>
     \A n \in RemovedNames : n \in Names => ~projects[n].NoHashMode

\* C12: a PruneCmd run without --exec removes nothing from any local tree
\* and changes no project record, in memory or persisted, whatever the
\* other options are.
C12_WithoutExecNothingChanges ==
  [][~opts'.Execute => (disk' = disk /\ saved' = saved /\ projects' = projects)]_vars

\* The projects in the pool of the selector, and whether it has returned.
PoolNames == {result.Candidates[i].Report.Name : i \in DOMAIN result.Candidates}
SelectorReturned == pc # "start" /\ ~(pc = "crashed" /\ idx = 0)
ForceWarning == "WARNING: --force skips verification. Data may be lost!"

\* C13: with force the pool is every grabbed project and the result carries
\* the force warning; without force no never-parked project is in the pool;
\* a never-parked project is selected or deleted only under force.
C13_ForceIsTheOnlyWayPastNeverParked ==
  SelectorReturned =>
    /\ opts.Force =>
         /\ PoolNames = {n \in Names : loaded[n].IsGrabbed}
         /\ ForceWarning \in Range(result.Warnings)
    /\ ~opts.Force => \A n \in PoolNames : loaded[n].LastParkAt # Nil
    /\ \A n \in Names :
         (loaded[n].LastParkAt = Nil /\ n \in SelectedNames \cup RemovedNames \cup DeletedNames)
            => opts.Force

\* C13 witness: under force a never-parked project and a project modified
\* since its park are both in the pool, and the never-parked one is deleted.
C13_Witness ==
  /\ opts.Force /\ ForceWarning \in Range(result.Warnings)
  /\ \E i, j \in DOMAIN result.Candidates :
       /\ result.Candidates[i].Report.NeverParked
       /\ ~result.Candidates[j].Report.NeverParked
       /\ ~result.Candidates[j].Report.IsSafeDelete
       /\ result.Candidates[i].Report.Name \in DeletedNames

\* C14: without force a grabbed project is in the selector's pool (its
\* report, made without recomputing hashes, says safe) if and only if the
\* executor's verification with noHash off accepts it on the same tree.
C14_PoolIffDefaultVerificationAccepts ==
  (vout.done /\ vout.fn = "determineSafetyStatus" /\ ~vin.recomputeHashes) =>
     (vout.verdict.safe <=>
        Apply("verifyBeforeDeletion", vin.project, [vin EXCEPT !.noHash = FALSE]).safe)

\* The number of candidates the selector marked, and the bytes of the first
\* k candidates of the pool.
AutoSelected == Cardinality({i \in DOMAIN result.Candidates : result.Candidates[i].Selected})
PoolPrefixBytes(k) == SumSeq([i \in 1..k |-> result.Candidates[i].Report.LocalSize])

\* C15: the pool is sorted ascending by last-modified time and the selected
\* projects are its shortest prefix whose sizes sum to at least the target,
\* or the whole pool when no prefix reaches it; no candidate is selected
\* while an older one is not.
C15_SelectionIsShortestSufficientPrefix ==
  SelectorReturned =>
    LET c == result.Candidates
        k == AutoSelected
    IN /\ \A i, j \in DOMAIN c : i < j => c[i].Report.LastModified <= c[j].Report.LastModified
       /\ \A i \in DOMAIN c : c[i].Selected <=> i <= k
       /\ k = Len(c) \/ PoolPrefixBytes(k) >= result.TargetBytes
       /\ k >= 1 => PoolPrefixBytes(k - 1) < result.TargetBytes
       /\ \A i, j \in DOMAIN c : (c[i].Selected /\ ~c[j].Selected) =>
             ~(c[j].Report.LastModified < c[i].Report.LastModified)
       /\ ~opts.Interactive => result.SelectedProjects = [i \in 1..k |-> c[i].Report]

\* C15 witness: of two candidates with different last-modified times the
\* older one alone reaches the target and is the only one selected.
C15_Witness ==
  /\ SelectorReturned /\ ~opts.Interactive /\ Len(result.Candidates) = 2
  /\ result.Candidates[1].Report.LastModified < result.Candidates[2].Report.LastModified
  /\ Len(result.SelectedProjects) = 1
  /\ result.SelectedProjects[1] = result.Candidates[1].Report
  /\ result.TotalSelected >= result.TargetBytes

\* C16 as stated: InsufficientSpace is set exactly when the pool is used up
\* with the selected bytes below the target; NoCandidates exactly when the
\* pool is empty, and then nothing is selected.
C16_FlagsExactlyWhenExhaustedOrEmpty ==
  SelectorReturned =>
    LET c == result.Candidates IN
    /\ result.InsufficientSpace <=>
         (AutoSelected = Len(c) /\ PoolPrefixBytes(AutoSelected) < result.TargetBytes)
    /\ result.NoCandidates <=> c = <<>>
    /\ result.NoCandidates => result.SelectedProjects = <<>>

\* C16 amended: InsufficientSpace is set exactly when the pool is not empty
\* and is used up with the selected bytes below the target, and then every
\* candidate is selected; NoCandidates is set exactly when the pool is empty,
\* and then nothing is selected and InsufficientSpace is not set.
C16_FlagsForNonEmptyAndEmptyPool ==
  SelectorReturned =>
    LET c == result.Candidates IN
    /\ result.InsufficientSpace <=>
         (c # <<>> /\ AutoSelected = Len(c) /\ PoolPrefixBytes(AutoSelected) < result.TargetBytes)
    /\ result.InsufficientSpace => \A i \in DOMAIN c : c[i].Selected
    /\ result.NoCandidates <=> c = <<>>
    /\ result.NoCandidates => (result.SelectedProjects = <<>> /\ ~result.InsufficientSpace)

\* C16 witness: a pool that cannot reach the target is selected whole and
\* flagged.
C16_Witness ==
  /\ SelectorReturned /\ ~opts.Interactive /\ result.InsufficientSpace
  /\ result.Candidates # <<>> /\ ~result.NoCandidates
  /\ Len(result.SelectedProjects) = Len(result.Candidates)
  /\ result.TotalSelected < result.TargetBytes

\* The candidates of the batch whose examination has begun.
Attempted == IF pc \in {"loop", "done"} THEN idx - 1 ELSE idx

BatchEnded == pc \in {"done", "crashed"} /\ idx >= 1

\* C17: the batch stops at the first point where the freed bytes reach the
\* target: no candidate is examined or deleted once TotalFreed >= TargetBytes,
\* and a batch that ended below the target has attempted every selected
\* candidate.
C17_BatchStopsExactlyAtTarget ==
  /\ (pc \in {"remove", "save"} \/ (pc = "loop" /\ idx <= Len(result.SelectedProjects)))
        => result.TotalFreed < result.TargetBytes
  /\ (BatchEnded /\ result.TotalFreed < result.TargetBytes)
        => Attempted = Len(result.SelectedProjects)

\* The position of a project in the pool the selector returned.
PoolPosition(name) ==
  CHOOSE i \in DOMAIN result.Candidates : result.Candidates[i].Report.Name = name

\* The names of the candidates examined so far, in the order of examination:
\* the finished attempts and the one in progress.
AttemptOrder ==
  [i \in 1..Len(progress) |-> progress[i].Name]
    \o (IF pc \in {"remove", "save"} THEN <<Candidate.Name>> ELSE <<>>)

\* C18: the executor attempts the selected projects in the order of the
\* selector's pool, oldest last-modified first, also when the selection was
\* adjusted interactively: the attempts are a prefix of SelectedProjects,
\* which keeps the relative order of the pool.
C18_DeletionsInSelectorOrder ==
  SelectorReturned =>
    LET sp == result.SelectedProjects IN
    /\ \A i \in DOMAIN sp : sp[i].Name \in PoolNames
    /\ \A i, j \in DOMAIN sp :
         i < j => /\ PoolPosition(sp[i].Name) < PoolPosition(sp[j].Name)
                  /\ sp[i].LastModified <= sp[j].LastModified
    /\ Len(AttemptOrder) <= Len(sp)
    /\ \A i \in DOMAIN AttemptOrder : AttemptOrder[i] = sp[i].Name
    /\ \A i, j \in DOMAIN removed :
         i < j => PoolPosition(removed[i]) < PoolPosition(removed[j])

\* C18 witness: the user added the second, newer candidate to the automatic
\* selection of the first; the first was attempted and failed, then the
\* second was attempted.
C18_Witness ==
  /\ opts.Interactive /\ pc \in {"loop", "done"}
  /\ AutoSelected = 1 /\ Len(result.SelectedProjects) = 2
  /\ result.Candidates[1].Report.LastModified < result.Candidates[2].Report.LastModified
  /\ AttemptOrder = <<result.Candidates[1].Report.Name, result.Candidates[2].Report.Name>>

\* C19: selection and verification only read: a step of SelectPruneCandidates
\* or of the executor's re-verification changes no Project field, not the
\* persisted state document, and no file on disk.
C19_SelectionAndVerificationReadOnly ==
  [][((\E t \in Targets, force \in BOOLEAN, noHash \in BOOLEAN :
          SelectPruneCandidates(t, force, noHash))
      \/ (\E panics \in BOOLEAN : ExamineOutcome(panics)))
     => (projects' = projects /\ saved' = saved /\ disk' = disk)]_vars

\* C19 witness: the selector chose a project and the executor's
\* re-verification has just accepted it; memory and the persisted document
\* are as loaded and its directory is still there.
C19_Witness ==
  /\ pc = "remove" /\ idx = 1 /\ ~opts.Force /\ envCount = 0
  /\ result.Candidates # <<>> /\ result.Candidates[1].Selected
  /\ Candidate = result.Candidates[1].Report
  /\ projects = loaded /\ saved = loaded
  /\ disk[Candidate.LocalPath].exists

\* C20: when the interactive session ended with q or escape, whatever was
\* toggled before, the command is over, the executor never started, no
\* directory was removed, and the projects in memory and in the persisted
\* document are as loaded.
C20_QuitLeavesNoSideEffects ==
  (selector.active /\ selector.quitting) =>
     /\ pc = "done" /\ idx = 0
     /\ removed = <<>> /\ progress = <<>> /\ saveCalls = 0
     /\ projects = loaded /\ saved = loaded
     /\ \A n \in Names : loaded[n].IsGrabbed => disk[n].exists

\* C20 witness: the user changed the selection, then quit.
C20_Witness ==
  /\ selector.active /\ selector.quitting /\ pc = "done"
  /\ selector.selected #
       {i \in 0..(Len(result.Candidates) - 1) : result.Candidates[i + 1].Selected}
  /\ selector.selected # {}

\* The names the user had selected when the session ended.
ChosenNames ==
  {selector.candidates[i + 1].Report.Name : i \in selector.selected}

ExecutorStarted == pc \in {"selected", "loop", "remove", "save"} \/ idx >= 1

\* C21: after an interactive session the executor runs only if the session
\* was confirmed and the y/N prompt was answered yes, and every project it
\* attempts or removes was selected when the session was confirmed; a
\* candidate the user deselected keeps its directory.
C21_OnlyConfirmedSelectionDeleted ==
  opts.Interactive =>
    IF ~selector.active
    THEN ~ExecutorStarted /\ removed = <<>>
    ELSE /\ ExecutorStarted =>
              /\ selector.confirmed /\ ~selector.quitting
              /\ response \in {"y", "Y", "yes", "Yes"}
         /\ RemovedNames \subseteq ChosenNames
         /\ Range(AttemptOrder) \subseteq ChosenNames
         /\ \A i \in DOMAIN selector.candidates :
              (i - 1) \notin selector.selected
                 => disk[selector.candidates[i].Report.LocalPath].exists

\* C21 witness: the user deselected the pre-selected first candidate and
\* selected the second; after "y" only the second was removed.
C21_Witness ==
  /\ opts.Interactive /\ selector.active /\ selector.confirmed
  /\ Len(result.Candidates) = 2 /\ result.Candidates[1].Selected
  /\ selector.selected = {1}
  /\ removed = <<result.Candidates[2].Report.Name>>
  /\ disk[result.Candidates[1].Report.LocalPath].exists
  /\ pc = "done"

\* C22: confirmed and quitting are never both set; in the active state
\* enter/return sets only confirmed, q/escape sets only quitting, and no
\* other key sets either; once one is set no key is read any more and the
\* selector no longer changes.
C22_ConfirmedAndQuitExclusiveAndFinal ==
  [][selector.active =>
       /\ ~(selector.quitting /\ selector.confirmed)
       /\ (selector.quitting \/ selector.confirmed)
             => (pc # "interactive" /\ selector' = selector)
       /\ pc = "interactive" =>
             \A key \in Keys :
                LET m == handleInput(selector, key) IN
                /\ m.confirmed <=> key \in {"CR", "LF"}
                /\ m.quitting <=> key \in {"q", "ESC"}
                /\ (m.confirmed \/ m.quitting) => m.selected = selector.selected]_vars

\* C22 witness: after the cursor was moved and the selection changed, enter
\* ended the session as confirmed and the command went on without reading
\* another key.
C22_Witness ==
  /\ selector.active /\ selector.confirmed /\ ~selector.quitting
  /\ selector.cursor > 0
  /\ selector.selected #
       {i \in 0..(Len(result.Candidates) - 1) : result.Candidates[i + 1].Selected}
  /\ pc = "loop"

\* C23: once RunInteractiveSelection has returned, by confirm, quit or a read
\* error, the terminal has the configuration it had at entry; when standard
\* input is not a terminal the call is rejected with the configuration
\* untouched and no key handled.
C23_TerminalRestoredOnEveryExit ==
  /\ pc # "interactive" => tty.config = "entry"
  /\ ~tty.isatty => (~selector.active /\ pc # "interactive")

\* The (relative path, content) pairs and the (relative path, file digest)
\* pairs of the regular files of a tree.
RegPairs(t) == {<<e.path, e.content>> : e \in {f \in t : f.kind = "reg"}}
DigestPairs(t) == {<<e.path, hashFile(e.content)>> : e \in {f \in t : f.kind = "reg"}}

\* C24: the outcome of hashing a tree is the outcome of hashing, in any
\* traversal order, any tree with the same (path, content) pairs of regular
\* files, whatever links and other non-regular entries either tree has.
C24_DigestDependsOnRegularPairsOnly ==
  vout.done =>
    \A t \in HashTrees :
       RegPairs(t) = RegPairs(vin.tree) => \A w \in Walks(t) : ProjectHash(w) = vout.sum

\* C24 witness: two regular files and a link, reported in an order that is
\* not the path order, gave a digest.
C24_Witness ==
  /\ vout.done /\ ~vout.sum.err
  /\ Len(vout.walk) = 3
  /\ vout.walk[1].kind = "reg" /\ vout.walk[2].kind = "link" /\ vout.walk[3].kind = "reg"
  /\ PathLess(vout.walk[3].path, vout.walk[1].path)

C26_NoRegularFileIsAnError ==
  (vout.done /\ RegPairs(vin.tree) = {}) =>
     /\ vout.sum.err
     /\ vout.sum.why = "project directory is empty or contains no regular files"
     /\ vout.sum.hash = NoHash

\* C26 witness: a tree holding only a link and a sub-directory was refused.
C26_Witness ==
  /\ vout.done /\ vout.sum.err
  /\ \E e, f \in vin.tree : e.kind = "link" /\ f.kind = "other"

\* C27: at every point of a Save, also after it returned, failed or the
\* process died inside it, the state file holds the complete previous
\* document or the complete new one; after a return it is the new one, after
\* a failure the previous one.
C27_SaveIsAtomic ==
  LET f == disk[statePath] IN
  /\ f.exists /\ f.complete /\ f.doc \in {loaded, projects}
  /\ pc = "save.returned" => f.doc = Save(loaded, projects, TRUE)
  /\ pc = "save.failed" => f.doc = Save(loaded, projects, FALSE)

\* C27 witness: the process died while the temporary file was half
\* written; the state file still holds the previous document.
C27_Witness ==
  /\ pc = "save.crashed"
  /\ disk[tmpPath] = FileOf(projects, FALSE)
  /\ disk[statePath] = FileOf(loaded, TRUE)
  /\ projects # loaded

\* C28: RemoveCmd with archive = true and localOnly = false on a grabbed
\* project whose archive copy is there, confirmed with yes and with no
\* input/output failure, returns no error, and afterwards the archive
\* directory and the local directory are gone and the persisted state has no
\* entry for the project.
C28_EverywhereRemovesBothCopies ==
  (/\ vout.done /\ vin.archive /\ ~vin.localOnly /\ vin.yes /\ vin.ioOk
   /\ vin.name \in Names /\ loaded[vin.name].IsGrabbed
   /\ vout.err \notin {"archive path does not exist", "failed to calculate archive size"})
    => /\ vout.err = ""
       /\ ~disk[ArchivePath(vin.name)].exists
       /\ ~disk[loaded[vin.name].LocalPath].exists
       /\ vin.name \notin DOMAIN saved

\* The newest modification time of the entries of tree d.
RECURSIVE MaxMtime(_, _)
MaxMtime(files, i) ==
  IF i > Len(files) THEN ZeroTime
  ELSE LET rest == MaxMtime(files, i + 1)
       IN IF files[i].mtime > rest THEN files[i].mtime ELSE rest

\* The park baseline of the mtime method: last_park_mtime, or last_park_at
\* when last_park_mtime is absent.
ParkBaseline(project) ==
  IF project.LastParkMtime # Nil THEN project.LastParkMtime ELSE project.LastParkAt

\* The call was verifyBeforeDeletion on a parked project whose tree is there,
\* readable and holds at least one entry.
VerifiedParkedTree ==
  /\ vout.done /\ vout.fn = "verifyBeforeDeletion"
  /\ ~NeverParked(vin.project)
  /\ vin.d.exists /\ vin.d.readable /\ Len(vin.d.files) > 0

\* C29: under the mtime method a parked project is judged unsafe if and only
\* if the newest file modification time of its tree is strictly after
\* last_park_mtime, or strictly after last_park_at when last_park_mtime is
\* absent; a newest time equal to the baseline is safe.
C29_MtimeUnsafeIffNewerThanBaseline ==
  (VerifiedParkedTree /\ ~vout.hashMethod) =>
     /\ ~vout.verdict.panic
     /\ ~vout.verdict.safe <=>
          After(MaxMtime(vin.d.files, 1), ParkBaseline(vin.project))

\* C30: under the hash method, in the executor's verifier and in the
\* verification before rm, a tree whose newest file modification time is
\* strictly after the recorded park baseline is judged unsafe, also when the
\* recomputed tree hash equals the recorded hash.
C30_HashMethodMtimePrecheckFirst ==
  (/\ vout.done /\ vout.hashMethod /\ vout.fn \in {"verifyBeforeDeletion", "RmCmd"}
   /\ ParkBaseline(vin.project) # Nil
   /\ vin.d.exists /\ vin.d.readable /\ Len(vin.d.files) > 0
   /\ After(MaxMtime(vin.d.files, 1), ParkBaseline(vin.project)))
    => ~vout.verdict.safe

\* C31: the freed-byte total of a prune run is the sum of the sizes of the
\* directories the run removed from disk, each measured immediately before
\* its removal: a removal is of a directory that was there and whose size
\* GetDirSize has just measured, the measured size is added to TotalFreed
\* when the candidate's iteration ends, and nothing else is ever added.
C31_FreedTotalIsSumOfRemovedSizes ==
  [][/\ Len(removed') > Len(removed) =>
          LET d == disk[Candidate.LocalPath]
          IN d.exists /\ ~GetDirSize(d).err /\ curSize' = GetDirSize(d).size
     /\ pc = "save" => result'.TotalFreed = result.TotalFreed + curSize
     /\ pc \in {"loop", "remove", "done", "crashed"} =>
          result'.TotalFreed = result.TotalFreed]_vars

\* The record of project n with the two changes of a deletion.
MarkedDeleted(n) == [loaded[n] EXCEPT !.IsGrabbed = FALSE, !.GrabbedAt = Nil]

\* C32: the only changes ExecutePrune makes to project records, in memory
\* and in the persisted document, are IsGrabbed = false and GrabbedAt = nil
\* on the projects it reports as deleted (and on the candidate whose
\* deletion is being saved); projects reported as failed and projects
\* outside the selection keep every field, and no other field of any
\* project changes.
C32_OnlyDeletedProjectsChange ==
  \A n \in Names :
    LET inProgress == pc = "save" /\ Candidate.Name = n
    IN /\ projects[n] \in {loaded[n], MarkedDeleted(n)}
       /\ saved[n] \in {loaded[n], MarkedDeleted(n)}
       /\ n \in DeletedNames => (projects[n] = MarkedDeleted(n) /\ saved[n] = MarkedDeleted(n))
       /\ (n \notin DeletedNames /\ ~inProgress) =>
            (projects[n] = loaded[n] /\ saved[n] = loaded[n])

\* How many entries of the sequence of reports s carry the name.
Occurrences(s, name) == Cardinality({i \in DOMAIN s : s[i].Name = name})

\* C33: when ExecutePrune returns, Deleted and FailedDeletions are disjoint,
\* the attempted candidates are a prefix of SelectedProjects, each of them is
\* in exactly one of the two lists exactly once and nothing else is in the
\* lists, and the progress callback was invoked exactly once per attempted
\* candidate, in order, with success = true if and only if the candidate is
\* in Deleted.
C33_ResultListsPartitionAttempts ==
  (pc = "done" /\ idx >= 1) =>
    LET sp == result.SelectedProjects
        k == idx - 1
    IN /\ DeletedNames \cap FailedNames = {}
       /\ k <= Len(sp)
       /\ Len(result.Deleted) + Len(result.FailedDeletions) = k
       /\ \A i \in 1..k :
            Occurrences(result.Deleted, sp[i].Name)
              + Occurrences(result.FailedDeletions, sp[i].Name) = 1
       /\ Len(progress) = k
       /\ \A i \in 1..k :
            /\ progress[i].Name = sp[i].Name
            /\ progress[i].success <=> sp[i].Name \in DeletedNames

\* C33 witness: the run returned with one candidate deleted and one failed.
C33_Witness ==
  /\ pc = "done" /\ idx = 3
  /\ Len(result.Deleted) = 1 /\ Len(result.FailedDeletions) = 1
  /\ Len(progress) = 2

C35_ParkMtimeSetWheneverParkAtSet ==
  \A n \in DOMAIN saved :
    saved[n].LastParkAt # Nil => saved[n].LastParkMtime # Nil

\* The sizes of the candidates selector m holds as selected, summed.
SelectedBytes(m) ==
  SumSeq([i \in 1..Len(m.candidates) |->
            IF (i - 1) \in m.selected THEN m.candidates[i].Report.LocalSize ELSE 0])

AllSelected(m) == \A i \in 0..(Len(m.candidates) - 1) : i \in m.selected

\* The sizes of all candidates of selector m, summed.
AllBytes(m) == SumSeq([i \in 1..Len(m.candidates) |-> m.candidates[i].Report.LocalSize])

\* C37: pressing 'a' in any reachable selector state deselects every
\* candidate if every candidate is selected, and otherwise selects every
\* candidate; afterwards the running total is 0 or the sum of all candidate
\* sizes respectively.  Nothing else of the selector changes.
C37_AKeyTogglesAll ==
  (vin.given /\ vin.key = "a") =>
    /\ AllSelected(vin.before) =>
         (selector.selected = {} /\ selector.totalSelected = 0)
    /\ ~AllSelected(vin.before) =>
         (AllSelected(selector) /\ selector.totalSelected = AllBytes(selector))
    /\ selector = [vin.before EXCEPT !.selected = selector.selected,
                                     !.totalSelected = selector.totalSelected]

\* C37 witness: 'a' was pressed with all three candidates selected, one of
\* them selected by hand, and now none is.
C37_Witness ==
  /\ vin.given /\ vin.key = "a"
  /\ Len(selector.candidates) = 3 /\ ~selector.candidates[3].Selected
  /\ AllSelected(vin.before)
  /\ selector.selected = {}

\* C38: pressing space flips the selected flag of exactly the candidate
\* under the cursor and leaves every other flag and the cursor unchanged;
\* pressing space twice in a row restores the previous selection and
\* running total.
C38_SpaceTogglesCandidateUnderCursor ==
  (vin.given /\ vin.key = " ") =>
    LET b == vin.before IN
    /\ selector.cursor = b.cursor
    /\ (b.cursor \in selector.selected) <=> (b.cursor \notin b.selected)
    /\ \A i \in 0..(Len(b.candidates) - 1) :
         i # b.cursor => ((i \in selector.selected) <=> (i \in b.selected))
    /\ selector.selected \subseteq 0..(Len(b.candidates) - 1)
    /\ LET twice == handleInput(selector, " ")
       IN twice.selected = b.selected /\ twice.totalSelected = b.totalSelected

\* C38 witness: space was pressed on the second of three candidates, which
\* was selected, with the first selected as well.
C38_Witness ==
  /\ vin.given /\ vin.key = " "
  /\ Len(selector.candidates) = 3
  /\ vin.before.cursor = 1 /\ vin.before.selected = {0, 1}
  /\ selector.selected = {0}

\* C39: after any sequence of keys the cursor satisfies
\* 0 <= cursor <= len - 1; up at index 0 and down at index len - 1 leave it
\* unchanged, and every other up or down moves it by exactly one.
C39_CursorClamped ==
  LET n == Len(selector.candidates) IN
  /\ 0 <= selector.cursor /\ selector.cursor <= n - 1
  /\ (vin.given /\ vin.key \in {"k", "A"}) =>
       selector.cursor = IF vin.before.cursor = 0 THEN 0 ELSE vin.before.cursor - 1
  /\ (vin.given /\ vin.key \in {"j", "B"}) =>
       selector.cursor = IF vin.before.cursor = n - 1 THEN n - 1 ELSE vin.before.cursor + 1

\* C39 witness: down was pressed at the last of three candidates and the
\* cursor stayed.
C39_Witness ==
  /\ vin.given /\ vin.key \in {"j", "B"}
  /\ Len(selector.candidates) = 3
  /\ vin.before.cursor = 2 /\ selector.cursor = 2

\* The step is a local-only RemoveCmd on a project the state holds as grabbed.
LocalRemoval ==
  /\ pc = "remove.start" /\ vout'.done /\ vin'.localOnly
  /\ vin'.name \in DOMAIN projects /\ projects[vin'.name].IsGrabbed

\* What holds of every local-only removal whatever its outcome: the archive
\* copy is untouched and the project stays in the persisted state; after a
\* success the project is marked not grabbed and its local directory is
\* gone; when the command fails before or at its first Save nothing on disk
\* and nothing persisted has changed (the Save comes before the deletion).
LocalRemovalEffects ==
  LET n == vin'.name
      lp == projects[n].LocalPath
  IN /\ disk'[ArchivePath(n)] = disk[ArchivePath(n)]
     /\ n \in DOMAIN saved'
     /\ vout'.err = "" =>
          /\ saved' = [saved EXCEPT ![n].IsGrabbed = FALSE]
          /\ ~disk'[lp].exists
     /\ vout'.err \notin {"", "failed to remove local copy"} =>
          (disk' = disk /\ saved' = saved)

\* C40 as stated: a local-only RemoveCmd saves is_grabbed = false before it
\* deletes the local directory; if the deletion fails it restores
\* is_grabbed = true and saves again, so that after a failed local removal
\* the persisted state again records the project as grabbed; after a
\* successful one the project is still in the state, marked not grabbed,
\* and its archive is untouched.
C40_FailedLocalRemovalLeavesGrabbed ==
  [][LocalRemoval =>
       /\ LocalRemovalEffects
       /\ vout'.err = "failed to remove local copy" =>
            (saved'[vin'.name].IsGrabbed /\ saved' = saved)]_vars

\* C40 amended: as above, but after a failed local removal the persisted
\* state records the project as grabbed again only if the second Save, whose
\* error the command discards, succeeded; otherwise the persisted state
\* keeps is_grabbed = false.  In memory is_grabbed is true again either way.
C40_FailedLocalRemovalRollsBackIfSaved ==
  [][LocalRemoval =>
       /\ LocalRemovalEffects
       /\ vout'.err = "failed to remove local copy" =>
            /\ projects'[vin'.name].IsGrabbed
            /\ vin'.rollbackOk => saved' = saved
            /\ ~vin'.rollbackOk => saved' = [saved EXCEPT ![vin'.name].IsGrabbed = FALSE]]_vars

\* C40 witness: the deletion failed part-way, the second Save succeeded, and
\* the persisted state records the project as grabbed.
C40_Witness ==
  /\ vout.done /\ vin.localOnly /\ vin.rollbackOk
  /\ vout.err = "failed to remove local copy"
  /\ saved[vin.name].IsGrabbed
  /\ disk[vin.name].exists /\ Len(disk[vin.name].files) = 1

====
